---- MODULE Spec2Model ----
(***************************************************************************)
(* Overlay registry and deferred task scheduler of wlx-overlay-s.          *)
(*                                                                         *)
(* Producers (Toast::submit_at) enqueue DropOverlay / CreateOverlay tasks  *)
(* in the TaskContainer; each tick of the main loop retrieves the due      *)
(* tasks and applies them, one after the other, to the OverlayContainer.   *)
(* Instants are whole time units, timeouts are whole units too.            *)
(*                                                                         *)
(* The TaskContainer and the main loop's execution of the tasks follow     *)
(* the design description and the comments of submit_at: the queue is in   *)
(* time order, first in first out on ties; CreateOverlay builds nothing    *)
(* when its selector finds an overlay; DropOverlay removes only overlays   *)
(* created before the current frame.                                       *)
(*                                                                         *)
(* The specifications: Spec is the scheduler driving the registry;         *)
(* RegistrySpec calls the lookups, add and remove_by_selector of the       *)
(* OverlayContainer one after the other, starting from the registry that   *)
(* OverlayContainer::new builds; ShowSpec calls show_hide again and again  *)
(* on a registry of overlays with any flags; SnapSpec applies snap_upright *)
(* to a head transform; LiveSpec is the scheduler running on and on, with  *)
(* fairness and without history; NewSpec builds the registry with          *)
(* OverlayContainer::new, screens included; TopicSpec sends one toast of   *)
(* any topic through the scheduler under any topic table; AllocSpec        *)
(* interleaves the allocate calls of the line pools, XrLineSpec and        *)
(* VrLineSpec call the methods of one OpenXR and one OpenVR line pool;     *)
(* AtlasSpec creates and resizes the Contexts of wgui's SharedContext.     *)
(* OverlayState::reset, the OverlayID generator and the destruction of a   *)
(* removed overlay follow the design description as well.                  *)
(***************************************************************************)
EXTENDS Integers, Sequences, FiniteSets, TLC

VARIABLES
    now,          \* Instant::now() as the main loop read it last
    cur_frame,    \* frame counter of the main loop
    tasks,        \* app.tasks: the pending tasks, in time order
    due,          \* the tasks retrieved by the running tick, not yet executed
    overlays,     \* OverlayContainer.overlays: IdMap from id to overlay state
    next_id,      \* the OverlayID generator
    session,      \* app.session: toast_topics and config.watch_hand
    submitted,    \* number of toasts submitted so far (tags each Toast)
    enqueued,     \* number of tasks enqueued so far (tags each task)
    tick,         \* history: the queue the last tick found and its steps
    app_anchor,   \* app.anchor: the transform the anchored overlays hang on
    input_hmd,    \* app.input_state.hmd: the head's transform
    held,         \* ids of the overlays whose backend resources are held
    calls,        \* history: the last calls of OverlayContainer methods
    app_screens,  \* app.screens: the ScreenMeta of the screens in the registry
    openvr,       \* backend/openvr/lines.rs: LINE_AUTO_INCREMENT and the pools
    openxr,       \* backend/openxr/lines.rs: LINE_AUTO_INCREMENT and the pools
    shared        \* wgui SharedContext.atlas_map and the Contexts that use it

vars == <<now, cur_frame, tasks, due, overlays, next_id, session,
          submitted, enqueued, tick, app_anchor, input_hmd, held, calls,
          app_screens, openvr, openxr, shared>>

\* what the scheduler and the registry calls never touch
aside == <<app_screens, openvr, openxr, shared>>

-----------------------------------------------------------------------------
(* Bounds of the model *)

MaxTime == 1
MaxTimeout == 2
MaxSubmits == 2
MaxFrame == 3
MaxOverlays == 3
MaxLines == 2
MaxDraws == 2
MaxContexts == 2

\* the instants toasts are submitted for, and the clock readings of the ticks
Instants == 0..MaxTime
Clock == 0..(MaxTime + MaxTimeout)
Timeouts == {0, MaxTimeout}

-----------------------------------------------------------------------------
(* Names, topics, display methods *)

TOAST_NAME == "toast"
ANCHOR_NAME == "anchor"
WATCH_NAME == "watch"
KEYBOARD_NAME == "kbd"

DisplayMethod == {"Hide", "Center", "Watch"}
ToastTopic == {"System", "DesktopNotification", "XSNotification", "IpdChange"}
LeftRight == {"Left", "Right"}

\* the topics the producers of the model submit toasts for
SubmitTopics == {"System"}

\* Option::None of an id lookup
NoId == 0

-----------------------------------------------------------------------------
(* OverlaySelector *)

SelName(n) == [kind |-> "Name", name |-> n, id |-> NoId]
SelId(i) == [kind |-> "Id", name |-> "", id |-> i]

-----------------------------------------------------------------------------
(* Positioning; lerp is kept in tenths (1 is 0.1, 10 is 1.0) *)

PosStatic == [kind |-> "Static", hand |-> 0, lerp10 |-> 0]
PosFollowHead(l) == [kind |-> "FollowHead", hand |-> 0, lerp10 |-> l]
PosFollowHand(h, l) == [kind |-> "FollowHand", hand |-> h, lerp10 |-> l]

-----------------------------------------------------------------------------
(* Toast: topic, timeout and the submission number standing for its text *)

NoToast == [topic |-> "none", timeout |-> 0, sub |-> 0]
Toast(topic, timeout, sub) == [topic |-> topic, timeout |-> timeout, sub |-> sub]

-----------------------------------------------------------------------------
(* OverlayState and the OverlayContainer (an IdMap: iteration is by id) *)

\* positioning of the overlays whose constructors set it outside this model
PosDefault == [kind |-> "Default", hand |-> 0, lerp10 |-> 0]

\* show_hide and recenter are false by default; reset holds the kinds of
\* reset ("soft", "hard") the transform went through since the overlay was built
OverlayState(id, name, visible, positioning, toast) ==
    [id |-> id, name |-> name, want_visible |-> visible,
     positioning |-> positioning, birthframe |-> 0, toast |-> toast,
     show_hide |-> FALSE, recenter |-> FALSE, reset |-> {}]

Min(S) == CHOOSE x \in S : \A y \in S : x <= y

Ids(ovs) == DOMAIN ovs

Named(ovs, name) == {i \in Ids(ovs) : ovs[i].name = name}

mut_by_id(ovs, id) == IF id \in Ids(ovs) THEN id ELSE NoId

\* variant of mut_by_name: a lookup by name that never finds an overlay
mut_by_name_blind(ovs, name) == NoId

\* variant of mut_by_name: a name nobody has yields the first overlay
mut_by_name_or_first(ovs, name) ==
    IF Named(ovs, name) # {} THEN Min(Named(ovs, name))
    ELSE IF Ids(ovs) # {} THEN Min(Ids(ovs))
    ELSE NoId

mut_by_name(ovs, name) ==
    IF Named(ovs, name) = {} THEN NoId ELSE Min(Named(ovs, name))

mut_by_selector(ovs, sel) ==
    IF sel.kind = "Id" THEN mut_by_id(ovs, sel.id) ELSE mut_by_name(ovs, sel.name)

Without(ovs, id) == [i \in Ids(ovs) \ {id} |-> ovs[i]]

\* variant of remove_by_selector: a name removes every overlay of that name
remove_by_selector_all(ovs, sel) ==
    IF sel.kind = "Id"
    THEN Without(ovs, sel.id)
    ELSE [i \in {j \in Ids(ovs) : ovs[j].name # sel.name} |-> ovs[i]]

remove_by_selector(ovs, sel) ==
    IF sel.kind = "Id"
    THEN Without(ovs, sel.id)
    ELSE LET found == {i \in Ids(ovs) : ovs[i].name = sel.name}
         IN  IF found = {} THEN ovs ELSE Without(ovs, Min(found))

\* variant of add: an overlay whose id is taken is not stored
add_keep(ovs, o) ==
    [i \in Ids(ovs) \cup {o.id} |-> IF i \in Ids(ovs) THEN ovs[i] ELSE o]

add(ovs, o) == [i \in Ids(ovs) \cup {o.id} |-> IF i = o.id THEN o ELSE ovs[i]]

\* OverlayContainer::new, headless: anchor, watch, keyboard
create_anchor(id) == OverlayState(id, ANCHOR_NAME, FALSE, PosStatic, NoToast)

OverlayContainer_new ==
    LET anchor == create_anchor(1)
        watch == OverlayState(2, WATCH_NAME, TRUE, PosDefault, NoToast)
        keyboard == OverlayState(3, KEYBOARD_NAME, FALSE, PosDefault, NoToast)
    IN  add(add(add(<< >>, anchor), watch), keyboard)

FirstFreeId == 4

\* variant of NextOverlayID: the generator hands out the same id again
NextOverlayID_same(n) == n

\* the OverlayID generator: the id after the one it handed out last
NextOverlayID(n) == n + 1

get_by_id(ovs, id) == IF id \in Ids(ovs) THEN id ELSE NoId

\* variant of get_by_name: the last overlay of that name in iteration order
get_by_name_last(ovs, name) ==
    IF Named(ovs, name) = {} THEN NoId
    ELSE CHOOSE i \in Named(ovs, name) : \A j \in Named(ovs, name) : j <= i

get_by_name(ovs, name) ==
    IF \E i \in Ids(ovs) : ovs[i].name = name
    THEN Min({i \in Ids(ovs) : ovs[i].name = name})
    ELSE NoId

\* what remove_by_selector returns: the overlay it removed, or NoOverlay
NoOverlay == [id |-> NoId]

removed_by_selector(ovs, sel) ==
    LET id == IF sel.kind = "Id" THEN sel.id
              ELSE IF \E i \in Ids(ovs) : ovs[i].name = sel.name
                   THEN Min({i \in Ids(ovs) : ovs[i].name = sel.name})
                   ELSE NoId
    IN  IF id \in Ids(ovs) THEN ovs[id] ELSE NoOverlay

-----------------------------------------------------------------------------
(* glam vectors and transforms in exact arithmetic: a vector is three      *)
(* integers over a common denominator d, in lowest terms; d = 0 is NaN, what *)
(* a division by a zero length leaves. The model's inputs have lengths that  *)
(* are rational, so that no square root is rounded                           *)

Abs(n) == IF n < 0 THEN 0 - n ELSE n

RECURSIVE GCD(_, _)
GCD(a, b) == IF b = 0 THEN a ELSE GCD(b, a % b)

\* a number n / d
Rat(n, d) ==
    LET g == GCD(Abs(n), d)
    IN  IF d = 0 THEN [n |-> 0, d |-> 0] ELSE [n |-> n \div g, d |-> d \div g]

Less(r, q) == r.d # 0 /\ q.d # 0 /\ r.n * q.d < q.n * r.d

RatAbs(r) == [r EXCEPT !.n = Abs(@)]

NaN == [x |-> 0, y |-> 0, z |-> 0, d |-> 0]

\* Vec3A: (x, y, z) / d
Vec3A(x, y, z, d) ==
    LET g == GCD(GCD(Abs(x), Abs(y)), GCD(Abs(z), d))
    IN  IF d = 0 THEN NaN
        ELSE [x |-> x \div g, y |-> y \div g, z |-> z \div g, d |-> d \div g]

\* Vec3A::Y, the up direction snap_upright is called with
Y == Vec3A(0, 1, 0, 1)

dot(u, v) == Rat(u.x * v.x + u.y * v.y + u.z * v.z, u.d * v.d)

cross(u, v) ==
    Vec3A(u.y * v.z - u.z * v.y, u.z * v.x - u.x * v.z, u.x * v.y - u.y * v.x,
          u.d * v.d)

\* the integer square root, by Newton's iteration from a number above it;
\* SqrtMax is the root of the largest number
SqrtMax == 46340

RECURSIVE SqrtFrom(_, _)
SqrtFrom(n, r) == IF r * r <= n THEN r ELSE SqrtFrom(n, (r + n \div r) \div 2)

Sqrt(n) ==
    IF n < 256 THEN SqrtFrom(n, 16)
    ELSE IF n < 65536 THEN SqrtFrom(n, 256)
    ELSE IF n < 16777216 THEN SqrtFrom(n, 4096)
    ELSE SqrtFrom(n, SqrtMax)

length(v) == Rat(Sqrt(v.x * v.x + v.y * v.y + v.z * v.z), v.d)

\* v / |v|; NaN for a vector of length zero
normalize(v) ==
    IF v.d = 0 THEN NaN
    ELSE Vec3A(v.x, v.y, v.z, Sqrt(v.x * v.x + v.y * v.y + v.z * v.z))

\* v * r and u - v
mul(v, r) == Vec3A(v.x * r.n, v.y * r.n, v.z * r.n, v.d * r.d)

sub(u, v) ==
    Vec3A(u.x * v.d - v.x * u.d, u.y * v.d - v.y * u.d, u.z * v.d - v.z * u.d,
          u.d * v.d)

\* Affine3A::from_cols
from_cols(x_axis, y_axis, z_axis, translation) ==
    [x_axis |-> x_axis, y_axis |-> y_axis, z_axis |-> z_axis,
     translation |-> translation]

\* a rotation as sine s / l and cosine c / l, with s * s + c * c = l * l
Angle(s, c, l) == [s |-> s, c |-> c, l |-> l]

Level == Angle(0, 1, 1)

\* the rotations of a vector about the Z axis (roll), the X axis (pitch) and
\* the Y axis (yaw)
RotZ(a, v) == Vec3A(v.x * a.c - v.y * a.s, v.x * a.s + v.y * a.c, v.z * a.l, v.d * a.l)

RotX(a, v) == Vec3A(v.x * a.l, v.y * a.c - v.z * a.s, v.y * a.s + v.z * a.c, v.d * a.l)

RotY(a, v) == Vec3A(v.x * a.c + v.z * a.s, v.y * a.l, v.z * a.c - v.x * a.s, v.d * a.l)

\* input_state.hmd: the head rolled, then pitched, then turned, of the given
\* scale, at the given place
Hmd(roll, pitch, yaw, scale, translation) ==
    LET col(v) == mul(RotY(yaw, RotX(pitch, RotZ(roll, v))), scale)
    IN  from_cols(col(Vec3A(1, 0, 0, 1)), col(Vec3A(0, 1, 0, 1)),
                  col(Vec3A(0, 0, 1, 1)), translation)

\* the roll whose sine is n over an integer hypotenuse, and that hypotenuse
Hypotenuse(n) ==
    IF n = 0 THEN 1
    ELSE IF n % 2 = 0 THEN (n \div 2) * (n \div 2) + 1
    ELSE (n * n + 1) \div 2

Roll(n) ==
    LET l == Hypotenuse(Abs(n))
    IN  Angle(n, Sqrt(l * l - n * n), l)

\* a head whose x axis has the dot product x_up100 / 100 with the up
\* direction, forward units along -Z from the origin
Transform(x_up100, forward) ==
    Hmd(Roll(x_up100), Level, Level, Rat(Hypotenuse(Abs(x_up100)), 100),
         Vec3A(0, 0, 0 - forward, 1))

IDENTITY ==
    from_cols(Vec3A(1, 0, 0, 1), Vec3A(0, 1, 0, 1), Vec3A(0, 0, 1, 1),
              Vec3A(0, 0, 0, 1))

UprightThreshold100 == 20

\* variant of snap_upright: the rebuilt axes have length one
snap_upright_unit(transform) ==
    IF Less(RatAbs(dot(transform.x_axis, Y)), Rat(UprightThreshold100, 100))
    THEN LET col_z == normalize(transform.z_axis)
             col_x == cross(Y, col_z)
         IN  from_cols(normalize(col_x), normalize(cross(col_z, col_x)), col_z,
                       transform.translation)
    ELSE transform

\* snap_upright(transform, Vec3A::Y)
snap_upright(transform) ==
    IF Less(RatAbs(dot(transform.x_axis, Y)), Rat(UprightThreshold100, 100))
    THEN LET scale == length(transform.x_axis)
             col_z == normalize(transform.z_axis)
             col_x0 == cross(Y, col_z)
             col_y == normalize(cross(col_z, col_x0))
             col_x == normalize(col_x0)
         IN  from_cols(mul(col_x, scale), mul(col_y, scale), mul(col_z, scale),
                       transform.translation)
    ELSE transform

\* transform * ANCHOR_LOCAL, a translation by NEG_Z: the place one unit
\* along the transform's -Z axis
ANCHOR_LOCAL(transform) ==
    [transform EXCEPT !.translation = sub(@, transform.z_axis)]

-----------------------------------------------------------------------------
(* OverlayContainer::show_hide *)

\* OverlayState::reset(app, hard_reset): the transform snaps to its target;
\* the visibility of the overlay is not touched
reset(o, hard_reset) ==
    [o EXCEPT !.reset = @ \cup {IF hard_reset THEN "hard" ELSE "soft"}]

\* variant of any_shown: true when every overlay is a visible group member
any_shown_all(ovs) == \A i \in Ids(ovs) : ovs[i].show_hide /\ ovs[i].want_visible

any_shown(ovs) == \E i \in Ids(ovs) : ovs[i].show_hide /\ ovs[i].want_visible

\* variant of show_hide_each: every group member flips its own visibility
show_hide_each_flip(o, shown, realign_on_showhide) ==
    LET toggled == IF o.show_hide THEN [o EXCEPT !.want_visible = ~@] ELSE o
    IN  IF ~shown /\ o.name = WATCH_NAME THEN reset(toggled, TRUE) ELSE toggled

\* variant of show_hide_each: the watch is reset only as a group member
show_hide_each_group(o, shown, realign_on_showhide) ==
    LET toggled == IF o.show_hide THEN [o EXCEPT !.want_visible = ~shown] ELSE o
    IN  IF ~shown /\ o.show_hide /\ o.name = WATCH_NAME
        THEN reset(toggled, TRUE)
        ELSE toggled

\* variant of show_hide_each: realignment does not look at the recenter flag
show_hide_each_norecenter(o, shown, realign_on_showhide) ==
    LET toggled == IF o.show_hide THEN [o EXCEPT !.want_visible = ~shown] ELSE o
        realigned ==
            IF o.show_hide /\ toggled.want_visible /\ realign_on_showhide
            THEN reset(toggled, FALSE)
            ELSE toggled
    IN  IF ~shown /\ o.name = WATCH_NAME
        THEN reset(realigned, TRUE)
        ELSE realigned

\* variant of show_hide_each: the toggle does not look at the show_hide flag
show_hide_each_all(o, shown, realign_on_showhide) ==
    LET toggled == [o EXCEPT !.want_visible = ~shown]
        realigned ==
            IF o.show_hide /\ toggled.want_visible /\ realign_on_showhide /\ o.recenter
            THEN reset(toggled, FALSE)
            ELSE toggled
    IN  IF ~shown /\ o.name = WATCH_NAME
        THEN reset(realigned, TRUE)
        ELSE realigned

\* the body of the for_each closure, for one overlay
show_hide_each(o, shown, realign_on_showhide) ==
    LET toggled == IF o.show_hide THEN [o EXCEPT !.want_visible = ~shown] ELSE o
        realigned ==
            IF o.show_hide /\ toggled.want_visible /\ realign_on_showhide /\ o.recenter
            THEN reset(toggled, FALSE)
            ELSE toggled
    IN  IF ~shown /\ o.name = WATCH_NAME
        THEN reset(realigned, TRUE)
        ELSE realigned

\* variant of show_hide: the anchor is recomputed on every call
show_hide_anchor_always(ovs, old_anchor, hmd, realign_on_showhide) ==
    LET shown == any_shown(ovs)
    IN  [overlays |-> [i \in Ids(ovs) |->
                          show_hide_each(ovs[i], shown, realign_on_showhide)],
         anchor |-> ANCHOR_LOCAL(snap_upright(hmd))]

\* show_hide: the overlays and the anchor it leaves; hmd is input_state.hmd
show_hide(ovs, old_anchor, hmd, realign_on_showhide) ==
    LET shown == any_shown(ovs)
    IN  [overlays |-> [i \in Ids(ovs) |->
                          show_hide_each(ovs[i], shown, realign_on_showhide)],
         anchor |-> IF ~shown THEN ANCHOR_LOCAL(snap_upright(hmd)) ELSE old_anchor]

-----------------------------------------------------------------------------
(* AppSession::load: the topic table, defaults overridden by the config *)

Override(f, g) ==
    [k \in DOMAIN f \cup DOMAIN g |-> IF k \in DOMAIN g THEN g[k] ELSE f[k]]

DefaultTopics ==
    [k \in {"System", "DesktopNotification", "XSNotification"} |-> "Center"]

\* the configurations the model loads: notification_topics and watch_hand
NoTopics == [k \in {} |-> "Hide"]

TopicEntry(topic, method) == [k \in {topic} |-> method]

GeneralConfig(topics, hand, realign) ==
    [notification_topics |-> topics, watch_hand |-> hand,
     realign_on_showhide |-> realign]

Configs ==
    { GeneralConfig(NoTopics, "Left", TRUE),
      GeneralConfig(TopicEntry("System", "Watch"), "Left", FALSE),
      GeneralConfig(TopicEntry("System", "Watch"), "Right", TRUE),
      GeneralConfig(TopicEntry("System", "Hide"), "Right", FALSE) }

\* variant of AppSession_load: the defaults are inserted after the entries
\* of the configuration
AppSession_load_defaults_last(config) ==
    [toast_topics |-> Override(config.notification_topics, DefaultTopics),
     watch_hand |-> config.watch_hand,
     realign_on_showhide |-> config.realign_on_showhide]

AppSession_load(config) ==
    [toast_topics |-> Override(DefaultTopics, config.notification_topics),
     watch_hand |-> config.watch_hand,
     realign_on_showhide |-> config.realign_on_showhide]

-----------------------------------------------------------------------------
(* TaskContainer: tasks kept in time order, first in first out on ties *)

\* a task; toast and destroy_at are what the CreateOverlay closure captures,
\* seq and origin record when and by whom the task was enqueued
Task(kind, sel, toast, destroy_at, origin) ==
    [kind |-> kind, sel |-> sel, toast |-> toast, destroy_at |-> destroy_at,
     origin |-> origin, not_before |-> 0, seq |-> 0]

DropOverlay(sel, toast, origin) == Task("DropOverlay", sel, toast, 0, origin)
CreateOverlay(sel, toast, destroy_at) ==
    Task("CreateOverlay", sel, toast, destroy_at, "submit")

\* variant of Before: a task goes in front of the tasks due at its instant
Before_strict(q, instant) == Cardinality({i \in 1..Len(q) : q[i].not_before < instant})

\* variant of Before: a task goes to the back of the queue
Before_all(q, instant) == Len(q)

\* number of queued tasks that stay in front of a task due at instant
Before(q, instant) == Cardinality({i \in 1..Len(q) : q[i].not_before <= instant})

enqueue_at(q, task, instant, n) ==
    LET t == [task EXCEPT !.not_before = instant, !.seq = n]
        k == Before(q, instant)
    IN  SubSeq(q, 1, k) \o <<t>> \o SubSeq(q, k + 1, Len(q))

\* variant of DueCount: a task due exactly at t is not due yet
RECURSIVE DueCount_early(_, _)
DueCount_early(q, t) ==
    IF q = << >> \/ Head(q).not_before >= t THEN 0 ELSE 1 + DueCount_early(Tail(q), t)

\* length of the run of due tasks at the front of the queue
RECURSIVE DueCount(_, _)
DueCount(q, t) ==
    IF q = << >> \/ Head(q).not_before > t THEN 0 ELSE 1 + DueCount(Tail(q), t)

retrieve_due(q, t) == SubSeq(q, 1, DueCount(q, t))

remaining(q, t) == SubSeq(q, DueCount(q, t) + 1, Len(q))

-----------------------------------------------------------------------------
(* Toast::submit_at and new_toast *)

\* new_toast: the overlay state built for a toast, or NoState; gfx_ok says
\* whether text measuring and canvas creation succeed
NoState == [id |-> NoId]

\* the display method new_toast looks up for the toast's topic
current_method(toast, sess) ==
    IF toast.topic \in DOMAIN sess.toast_topics
    THEN sess.toast_topics[toast.topic]
    ELSE "Hide"

\* variant of new_toast: a centered toast follows the head without smoothing
new_toast_snap(toast, sess, id, gfx_ok) ==
    IF current_method(toast, sess) = "Hide" \/ ~gfx_ok
    THEN NoState
    ELSE OverlayState(id, TOAST_NAME, TRUE,
                      IF current_method(toast, sess) = "Center"
                      THEN PosFollowHead(10)
                      ELSE PosFollowHand(0, 10),
                      toast)

\* variant of new_toast: a toast is built although its text or canvas failed
new_toast_half_built(toast, sess, id, gfx_ok) ==
    IF current_method(toast, sess) = "Hide"
    THEN NoState
    ELSE OverlayState(id, TOAST_NAME, TRUE,
                      IF current_method(toast, sess) = "Center"
                      THEN PosFollowHead(1)
                      ELSE IF sess.watch_hand = "Left" THEN PosFollowHand(0, 10)
                      ELSE PosFollowHand(1, 10),
                      toast)

new_toast(toast, sess, id, gfx_ok) ==
    LET positioning ==
            IF current_method(toast, sess) = "Center" THEN PosFollowHead(1)
            ELSE IF sess.watch_hand = "Left" THEN PosFollowHand(0, 10)
            ELSE PosFollowHand(1, 10)
    IN  IF current_method(toast, sess) = "Hide" \/ ~gfx_ok
        THEN NoState
        ELSE OverlayState(id, TOAST_NAME, TRUE, positioning, toast)

\* variant of timeout_task: the timeout drops by name instead of by id
timeout_task_by_name(state) ==
    DropOverlay(SelName(state.name), state.toast, "timeout")

\* the task the factory closure enqueues once the toast is built
timeout_task(state) == DropOverlay(SelId(state.id), state.toast, "timeout")

\* variant of factory: the timeout is enqueued before the toast is built
factory_eager(toast, destroy_at, sess, id, gfx_ok, q, n) ==
    [state |-> new_toast(toast, sess, id, gfx_ok),
     tasks |-> enqueue_at(q, DropOverlay(SelId(id), toast, "timeout"),
                          destroy_at, n + 1)]

\* variant of factory: no timeout task is enqueued for the toast
factory_no_timeout(toast, destroy_at, sess, id, gfx_ok, q, n) ==
    [state |-> new_toast(toast, sess, id, gfx_ok), tasks |-> q]

\* variant of factory: the timeout runs from the time the toast is built
factory_from_now(toast, destroy_at, sess, id, gfx_ok, q, n) ==
    LET maybe_toast == new_toast(toast, sess, id, gfx_ok)
    IN  [state |-> maybe_toast,
         tasks |-> IF maybe_toast.id = NoId
                   THEN q
                   ELSE enqueue_at(q, timeout_task(maybe_toast),
                                   now + toast.timeout, n + 1)]

\* the factory closure of submit_at, run with the queue q: the state it
\* returns (or NoState) and the queue it leaves; auto_movement moves the
\* overlay's transform, which the model does not hold
factory(toast, destroy_at, sess, id, gfx_ok, q, n) ==
    LET maybe_toast == new_toast(toast, sess, id, gfx_ok)
    IN  [state |-> maybe_toast,
         tasks |-> IF maybe_toast.id = NoId
                   THEN q
                   ELSE enqueue_at(q, timeout_task(maybe_toast), destroy_at, n + 1)]

\* variant of submit_tasks: the previous toast is not dropped first
submit_tasks_no_drop(toast, instant) ==
    << CreateOverlay(SelName(TOAST_NAME), toast, instant + toast.timeout),
       CreateOverlay(SelName(TOAST_NAME), toast, instant + toast.timeout) >>

\* the two tasks of submit_at, in enqueue order (the notification sound
\* it may play touches nothing of this model)
submit_tasks(toast, instant) ==
    LET selector == SelName(TOAST_NAME)
        destroy_at == instant + toast.timeout
    IN  << DropOverlay(selector, toast, "submit"),
           CreateOverlay(selector, toast, destroy_at) >>

\* variant of submit_at: the create task is enqueued before the drop task
submit_at_create_first(q, toast, instant, n) ==
    LET ts == submit_tasks(toast, instant)
    IN  enqueue_at(enqueue_at(q, ts[2], instant, n + 1), ts[1], instant, n + 2)

submit_at(q, toast, instant, n) ==
    LET ts == submit_tasks(toast, instant)
    IN  enqueue_at(enqueue_at(q, ts[1], instant, n + 1), ts[2], instant, n + 2)

-----------------------------------------------------------------------------
(* The main loop's execution of one task *)

\* variant of drop_overlay: the overlay's birth frame is not looked at
drop_overlay_any_age(ovs, sel, frame) == remove_by_selector(ovs, sel)

\* variant of drop_overlay: a selector that finds nothing drops the toast
drop_overlay_fallback(ovs, sel, frame) ==
    IF mut_by_selector(ovs, sel) = NoId
    THEN remove_by_selector(ovs, SelName(TOAST_NAME))
    ELSE remove_by_selector(ovs, sel)

\* TaskType::DropOverlay: the overlays left after the task ran in frame
drop_overlay(ovs, sel, frame) ==
    LET id == mut_by_selector(ovs, sel)
    IN  IF id # NoId /\ ovs[id].birthframe < frame
        THEN remove_by_selector(ovs, sel)
        ELSE ovs

\* variant of destroy: what was removed is kept for a later frame
destroy_deferred(holding, before, after) == holding

\* the overlay a removal took out of the registry is destroyed: its backend
\* resources are released there and then
destroy(holding, before, after) == holding \ (Ids(before) \ Ids(after))

\* TaskType::CreateOverlay: whether the factory closure is called at all
create_wanted(ovs, sel) == mut_by_selector(ovs, sel) = NoId

-----------------------------------------------------------------------------
(* What the scheduler leaves alone, as it is when the program starts *)

\* the line module of a backend: the static counter, the lines of each pool
\* and the identifier the running call of allocate on a pool has fetched
Pools == {"pool", "other"}

LineModule_new ==
    [LINE_AUTO_INCREMENT |-> 1,
     lines |-> [p \in Pools |-> << >>],
     id |-> [p \in Pools |-> NoId],
     returned |-> << >>,     \* history: the identifiers allocate returned
     draws |-> 0,            \* history: number of draw_from calls so far
     presented |-> << >>]    \* history: the draws present returned as quads

\* SharedContext::new: no atlas yet; no Context yet
SharedContext_new == [atlas_map |-> << >>, contexts |-> << >>]

InitAside ==
    /\ app_screens = << >>
    /\ openvr = LineModule_new
    /\ openxr = LineModule_new
    /\ shared = SharedContext_new

-----------------------------------------------------------------------------
(* State machine *)

NoTask == Task("none", SelId(NoId), NoToast, 0, "none")

\* one executed task and the overlays before it ran; result is "drop" for a
\* DropOverlay, and for a CreateOverlay "exists" when the factory closure
\* was not called, else what the closure returned: "none" or "some"
Step(task, before, result) == [task |-> task, before |-> before, result |-> result]

\* history of a tick: the queue it found and the steps it has executed
Tick(queue, steps, running) == [queue |-> queue, steps |-> steps, running |-> running]

NoTick == Tick(<< >>, << >>, FALSE)

\* the history with one more step, when the history of the tick is kept
Logged(task, result) ==
    IF tick.running
    THEN [tick EXCEPT !.steps = Append(@, Step(task, overlays, result))]
    ELSE tick

Init ==
    /\ now = 0
    /\ cur_frame = 0
    /\ tasks = << >>
    /\ due = << >>
    /\ overlays = OverlayContainer_new
    /\ next_id = FirstFreeId
    /\ \E config \in Configs : session = AppSession_load(config)
    /\ submitted = 0
    /\ enqueued = 0
    /\ tick = NoTick
    /\ app_anchor = IDENTITY
    /\ input_hmd = IDENTITY
    /\ held = Ids(overlays)
    /\ calls = << >>
    /\ InitAside

\* a producer calls Toast::submit_at(app, instant)
Submit(topic, timeout, instant) ==
    /\ due = << >>
    /\ submitted < MaxSubmits
    /\ tasks' = submit_at(tasks, Toast(topic, timeout, submitted + 1), instant, enqueued)
    /\ submitted' = submitted + 1
    /\ enqueued' = enqueued + 2
    /\ tick' = NoTick
    /\ UNCHANGED <<now, cur_frame, due, overlays, next_id, session, app_anchor,
                   input_hmd, held, calls, aside>>

\* the main loop starts a frame: it reads the clock, which shows t, and
\* retrieves the due tasks
TickBegin(t) ==
    /\ due = << >>
    /\ cur_frame < MaxFrame
    /\ t >= now
    /\ now' = t
    /\ cur_frame' = cur_frame + 1
    /\ due' = retrieve_due(tasks, t)
    /\ tasks' = remaining(tasks, t)
    /\ tick' = Tick(tasks, << >>, TRUE)
    /\ UNCHANGED <<overlays, next_id, session, submitted, enqueued, app_anchor,
                   input_hmd, held, calls, aside>>

\* the main loop executes a DropOverlay task
ExecDrop ==
    /\ due # << >>
    /\ Head(due).kind = "DropOverlay"
    /\ overlays' = drop_overlay(overlays, Head(due).sel, cur_frame)
    /\ held' = destroy(held, overlays, overlays')
    /\ due' = Tail(due)
    /\ tick' = Logged(Head(due), "drop")
    /\ UNCHANGED <<now, cur_frame, tasks, next_id, session, submitted, enqueued,
                   app_anchor, input_hmd, calls, aside>>

\* the main loop executes a CreateOverlay task whose selector matches
ExecCreateExists ==
    /\ due # << >>
    /\ Head(due).kind = "CreateOverlay"
    /\ ~create_wanted(overlays, Head(due).sel)
    /\ due' = Tail(due)
    /\ tick' = Logged(Head(due), "exists")
    /\ UNCHANGED <<now, cur_frame, tasks, overlays, next_id, session,
                   submitted, enqueued, app_anchor, input_hmd, held, calls, aside>>

\* the main loop executes a CreateOverlay task: the factory closure runs
ExecCreate(gfx_ok) ==
    /\ due # << >>
    /\ Head(due).kind = "CreateOverlay"
    /\ create_wanted(overlays, Head(due).sel)
    /\ LET task == Head(due)
           made == factory(task.toast, task.destroy_at, session, next_id,
                           gfx_ok, tasks, enqueued)
       IN  /\ tasks' = made.tasks
           /\ enqueued' = enqueued + (Len(made.tasks) - Len(tasks))
           /\ IF made.state.id = NoId
              THEN /\ tick' = Logged(task, "none")
                   /\ UNCHANGED <<overlays, next_id, held>>
              ELSE /\ overlays' = add(overlays,
                                      [made.state EXCEPT !.birthframe = cur_frame])
                   /\ held' = held \cup {made.state.id}
                   /\ next_id' = NextOverlayID(next_id)
                   /\ tick' = Logged(task, "some")
    /\ due' = Tail(due)
    /\ UNCHANGED <<now, cur_frame, session, submitted, app_anchor, input_hmd, calls, aside>>

Next ==
    \/ \E topic \in SubmitTopics, timeout \in Timeouts, instant \in Instants :
          Submit(topic, timeout, instant)
    \/ \E t \in Clock : TickBegin(t)
    \/ ExecDrop
    \/ ExecCreateExists
    \/ \E gfx_ok \in BOOLEAN : ExecCreate(gfx_ok)

Spec == Init /\ [][Next]_vars

-----------------------------------------------------------------------------
(* The main loop running on and on. The frame counter is only ever compared *)
(* with the birth frame of an overlay, so the frames are counted from the  *)
(* running one: the running frame is 1, and an overlay is born in it (1)   *)
(* or before it (0). No history of the ticks is kept                       *)

\* the overlays as the next frame sees them: all born before it
Aged(ovs) == [i \in Ids(ovs) |-> [ovs[i] EXCEPT !.birthframe = 0]]

\* the main loop starts a frame, however many frames have gone by
TickBeginAnyFrame(t) ==
    /\ due = << >>
    /\ t >= now
    /\ now' = t
    /\ cur_frame' = 1
    /\ overlays' = Aged(overlays)
    /\ due' = retrieve_due(tasks, t)
    /\ tasks' = remaining(tasks, t)
    /\ tick' = NoTick
    /\ UNCHANGED <<next_id, session, submitted, enqueued, app_anchor,
                   input_hmd, held, calls, aside>>

NextLive ==
    \/ \E topic \in SubmitTopics, timeout \in Timeouts, instant \in Instants :
          Submit(topic, timeout, instant)
    \/ \E t \in Clock : TickBeginAnyFrame(t)
    \/ ExecDrop
    \/ ExecCreateExists
    \/ \E gfx_ok \in BOOLEAN : ExecCreate(gfx_ok)

\* the main loop executes every task it retrieved, frames keep coming and
\* the clock reaches every time
LiveSpec ==
    /\ Init
    /\ [][NextLive]_vars
    /\ WF_vars(ExecDrop)
    /\ WF_vars(ExecCreateExists)
    /\ WF_vars(\E gfx_ok \in BOOLEAN : ExecCreate(gfx_ok))
    /\ WF_vars(TickBeginAnyFrame(MaxTime + MaxTimeout))

-----------------------------------------------------------------------------
(* The OverlayContainer's methods, called one after the other *)

\* one call: the method, its selector or overlay argument, the overlay it
\* returned (NoOverlay for None), the registry and the anchor before it
Call(op, sel, arg, ret, before) ==
    [op |-> op, sel |-> sel, arg |-> arg, ret |-> ret, before |-> before,
     anchor |-> app_anchor]

NoSel == SelId(NoId)

\* Option<&OverlayData>: the overlay a lookup refers to
Ref(ovs, id) == IF id = NoId THEN NoOverlay ELSE ovs[id]

\* the ids and selectors of the calls; one id more than overlays can have
OverlayIds == 1..MaxOverlays
CallIds == 1..(MaxOverlays + 1)
CallNames == {ANCHOR_NAME, WATCH_NAME, KEYBOARD_NAME, TOAST_NAME}
Selectors == {SelId(i) : i \in CallIds} \cup {SelName(n) : n \in CallNames}

\* the overlays a caller adds
Added == {OverlayState(id, name, TRUE, PosDefault, NoToast) :
              id \in OverlayIds, name \in {WATCH_NAME, TOAST_NAME}}

InitRegistry ==
    /\ now = 0
    /\ cur_frame = 0
    /\ tasks = << >>
    /\ due = << >>
    /\ overlays = OverlayContainer_new
    /\ next_id = FirstFreeId
    /\ session = AppSession_load(GeneralConfig(NoTopics, "Left", FALSE))
    /\ submitted = 0
    /\ enqueued = 0
    /\ tick = NoTick
    /\ app_anchor = IDENTITY
    /\ input_hmd = IDENTITY
    /\ held = Ids(overlays)
    /\ calls = << >>
    /\ InitAside

Rest == <<now, cur_frame, tasks, due, next_id, session, submitted, enqueued,
          tick, app_anchor, input_hmd, aside>>

\* a lookup: the registry stays, the call is recorded
Lookup(op, sel, id) ==
    /\ calls' = << Call(op, sel, NoOverlay, Ref(overlays, id), overlays) >>
    /\ UNCHANGED <<overlays, held>>
    /\ UNCHANGED Rest

GetById(id) == Lookup("get_by_id", SelId(id), get_by_id(overlays, id))

MutById(id) == Lookup("mut_by_id", SelId(id), mut_by_id(overlays, id))

GetByName(name) == Lookup("get_by_name", SelName(name), get_by_name(overlays, name))

MutByName(name) == Lookup("mut_by_name", SelName(name), mut_by_name(overlays, name))

MutBySelector(sel) == Lookup("mut_by_selector", sel, mut_by_selector(overlays, sel))

RemoveBySelector(sel) ==
    /\ overlays' = remove_by_selector(overlays, sel)
    /\ held' = destroy(held, overlays, overlays')
    /\ calls' = << Call("remove_by_selector", sel, NoOverlay,
                        removed_by_selector(overlays, sel), overlays) >>
    /\ UNCHANGED Rest

Add(o) ==
    /\ overlays' = add(overlays, o)
    /\ held' = held \cup {o.id}
    /\ calls' = << Call("add", NoSel, o, NoOverlay, overlays) >>
    /\ UNCHANGED Rest

NextRegistry ==
    \/ \E id \in CallIds : GetById(id)
    \/ \E id \in CallIds : MutById(id)
    \/ \E name \in CallNames : GetByName(name)
    \/ \E name \in CallNames : MutByName(name)
    \/ \E sel \in Selectors : MutBySelector(sel)
    \/ \E sel \in Selectors : RemoveBySelector(sel)
    \/ \E o \in Added : Add(o)

RegistrySpec == InitRegistry /\ [][NextRegistry]_vars

-----------------------------------------------------------------------------
(* show_hide, called again and again on a registry *)

\* an overlay with its flags
Flagged(id, name, visible, group, recenter) ==
    [OverlayState(id, name, visible, PosDefault, NoToast)
        EXCEPT !.show_hide = group, !.recenter = recenter]

\* name, want_visible, show_hide, recenter of the overlays of the registries;
\* recenter only counts for the members of the show/hide group
Flags ==
    {f \in {WATCH_NAME, KEYBOARD_NAME} \X BOOLEAN \X BOOLEAN \X BOOLEAN :
        f[4] => f[3]}

\* the registry of the overlays with the ids S and the flags f
Registry(S, f) ==
    [id \in S |-> Flagged(id, f[id][1], f[id][2], f[id][3], f[id][4])]

\* input_state.hmd: a head on either side of the upright threshold
HmdPoses == {Transform(UprightThreshold100 - 1, 0), Transform(UprightThreshold100 + 1, 0)}

InitShow ==
    /\ now = 0
    /\ cur_frame = 0
    /\ tasks = << >>
    /\ due = << >>
    /\ \E S \in SUBSET OverlayIds : \E f \in [S -> Flags] : overlays = Registry(S, f)
    /\ next_id = MaxOverlays + 1
    /\ \E realign \in BOOLEAN :
          session = AppSession_load(GeneralConfig(NoTopics, "Left", realign))
    /\ submitted = 0
    /\ enqueued = 0
    /\ tick = NoTick
    /\ app_anchor = IDENTITY
    /\ input_hmd = IDENTITY
    /\ held = Ids(overlays)
    /\ calls = << >>
    /\ InitAside

\* the last two calls, the newest last
LastTwo(cs) == IF Len(cs) > 2 THEN Tail(cs) ELSE cs

ShowHide(hmd) ==
    /\ \E after \in {show_hide(overlays, app_anchor, hmd, session.realign_on_showhide)} :
          /\ overlays' = after.overlays
          /\ app_anchor' = after.anchor
    /\ calls' = LastTwo(Append(calls,
                    Call("show_hide", NoSel, NoOverlay, NoOverlay, overlays)))
    /\ UNCHANGED <<now, cur_frame, tasks, due, next_id, session, submitted,
                   enqueued, tick, input_hmd, held, aside>>

NextShow == \E hmd \in HmdPoses : ShowHide(hmd)

ShowSpec == InitShow /\ [][NextShow]_vars

-----------------------------------------------------------------------------
(* snap_upright, applied to the head's transform *)

\* rolls, pitches and turns of the head whose sines and cosines are rational
SnapRolls == {Angle(3, 4, 5), Angle(0 - 3, 4, 5), Angle(5, 12, 13)}
SnapPitches == {Level, Angle(3, 4, 5), Angle(0 - 4, 3, 5)}
SnapYaws == {Level, Angle(3, 4, 5)}
SnapPlaces == {Vec3A(0, 0, 0, 1), Vec3A(1, 3, 0 - 2, 2)}

\* the dot products of the x axis with the up direction, in hundredths, on
\* both sides of the threshold and on it
SnapDots == {UprightThreshold100 - 1, UprightThreshold100, UprightThreshold100 + 1}

\* heads scaled so that the x axis has the dot product n / 100 with up
DotHeads ==
    {Hmd(roll, pitch, yaw,
         Rat(n * roll.l * pitch.l, 100 * Abs(roll.s) * pitch.c), place) :
        roll \in SnapRolls, pitch \in SnapPitches, yaw \in SnapYaws,
        n \in SnapDots, place \in SnapPlaces}

\* heads of scale one: level, rolled to near the threshold, rolled over to
\* the side, looking along a slope and looking straight down
UnitRolls ==
    {Level, Angle(20, 99, 101), Angle(9, 40, 41), Angle(84, 437, 445),
     Angle(0 - 76, 357, 365), Angle(1, 0, 1)}

UnitHeads ==
    {Hmd(roll, pitch, yaw, Rat(1, 1), place) :
        roll \in UnitRolls, pitch \in SnapPitches \cup {Angle(1, 0, 1)},
        yaw \in SnapYaws, place \in SnapPlaces}

InitSnap ==
    /\ now = 0
    /\ cur_frame = 0
    /\ tasks = << >>
    /\ due = << >>
    /\ overlays = OverlayContainer_new
    /\ next_id = FirstFreeId
    /\ session = AppSession_load(GeneralConfig(NoTopics, "Left", FALSE))
    /\ submitted = 0
    /\ enqueued = 0
    /\ tick = NoTick
    /\ app_anchor = IDENTITY
    /\ input_hmd \in DotHeads \cup UnitHeads
    /\ held = Ids(overlays)
    /\ calls = << >>
    /\ InitAside

\* snap_upright(app.input_state.hmd, Vec3A::Y)
SnapUpright ==
    /\ calls = << >>
    /\ calls' = << Call("snap_upright", NoSel, input_hmd, snap_upright(input_hmd),
                        overlays) >>
    /\ UNCHANGED <<overlays, held>>
    /\ UNCHANGED Rest

NextSnap == SnapUpright

SnapSpec == InitSnap /\ [][NextSnap]_vars

-----------------------------------------------------------------------------
(* OverlayContainer::new with screens. create_screens, create_watch and     *)
(* create_keyboard are outside this model: what they return is an input.    *)
(* NewSpec starts before the registry is built and builds it once           *)

\* the outputs create_screens may find
ScreenNames == {"DP-1", "HDMI-A-1"}

\* Result of create_screens: Err, or the screens in the order it found them
ScreensErr == [ok |-> FALSE, screens |-> << >>]
ScreensOk(names) == [ok |-> TRUE, screens |-> names]

Created ==
    {ScreensErr, ScreensOk(<< >>)}
        \cup {ScreensOk(<<a>>) : a \in ScreenNames}
        \cup {ScreensOk(p) : p \in {q \in ScreenNames \X ScreenNames : q[1] # q[2]}}

\* what was constructed: all of anchor, watch and keyboard, or the
\* constructor that failed
Constructed == {"all", "anchor", "watch", "keyboard"}

\* a screen overlay as create_screens returns it, and its ScreenMeta
screen(id, name) == OverlayState(id, name, FALSE, PosDefault, NoToast)
ScreenMeta(id, name) == [name |-> name, id |-> id]

\* variant of new: a failure of create_screens is returned to the caller
new_screens_fatal(headless, created, show_screens, built, n) ==
    [ok |-> FALSE, overlays |-> << >>, screens |-> << >>, next_id |-> n]

\* OverlayContainer::new(app, headless): the Result, the registry, what was
\* pushed to app.screens and the id generator afterwards; n is the next id
new(headless, created, show_screens, built, n) ==
    LET found == ~headless /\ created.ok
        k == IF found THEN Len(created.screens) ELSE 0
        first_set == IF found /\ show_screens = {} /\ k > 0
                     THEN {created.screens[1]}
                     ELSE show_screens
        inserted == IF found /\ show_screens = {} THEN 1..k ELSE {}
        with_screens ==
            [i \in {n + j - 1 : j \in inserted} |->
                [screen(i, created.screens[i - n + 1])
                    EXCEPT !.show_hide = @ \/ created.screens[i - n + 1] \in first_set]]
        anchor == create_anchor(n + k)
        watch == OverlayState(n + k + 1, WATCH_NAME, TRUE, PosDefault, NoToast)
        keyboard == [OverlayState(n + k + 2, KEYBOARD_NAME, FALSE, PosDefault, NoToast)
                        EXCEPT !.show_hide = KEYBOARD_NAME \in first_set]
    IN  [ok |-> built = "all",
         overlays |-> IF built = "all"
                      THEN add(add(add(with_screens, anchor), watch), keyboard)
                      ELSE << >>,
         screens |-> [j \in inserted |-> ScreenMeta(n + j - 1, created.screens[j])],
         next_id |-> n + k + 3]

\* the session with config.show_screens
WithScreens(sess, show_screens) ==
    [toast_topics |-> sess.toast_topics, watch_hand |-> sess.watch_hand,
     realign_on_showhide |-> sess.realign_on_showhide,
     show_screens |-> show_screens]

InitNew ==
    /\ now = 0
    /\ cur_frame = 0
    /\ tasks = << >>
    /\ due = << >>
    /\ overlays = << >>
    /\ next_id = 1
    /\ \E show_screens \in SUBSET (ScreenNames \cup {KEYBOARD_NAME}) :
          session = WithScreens(AppSession_load(GeneralConfig(NoTopics, "Left", FALSE)),
                                show_screens)
    /\ submitted = 0
    /\ enqueued = 0
    /\ tick = NoTick
    /\ app_anchor = IDENTITY
    /\ input_hmd = IDENTITY
    /\ held = {}
    /\ calls = << >>
    /\ InitAside

\* the arguments and the Result of a call of new
NewArgs(headless, created, built) ==
    [headless |-> headless, created |-> created, built |-> built]

New(headless, created, built) ==
    /\ calls = << >>
    /\ \E made \in {new(headless, created, session.show_screens, built, next_id)} :
          /\ overlays' = made.overlays
          /\ app_screens' = made.screens
          /\ next_id' = made.next_id
          /\ held' = Ids(made.overlays)
          /\ calls' = << Call("new", NoSel, NewArgs(headless, created, built),
                              [ok |-> made.ok], overlays) >>
    /\ UNCHANGED <<now, cur_frame, tasks, due, session, submitted, enqueued,
                   tick, app_anchor, input_hmd, openvr, openxr, shared>>

NextNew ==
    \E headless \in BOOLEAN, created \in Created, built \in Constructed :
        New(headless, created, built)

NewSpec == InitNew /\ [][NextNew]_vars

-----------------------------------------------------------------------------
(* Toasts of every topic under every topic table. TopicSpec loads one of    *)
(* the configurations below and lets one toast of any topic through the     *)
(* scheduler; with one toast no CreateOverlay finds its selector taken      *)

\* config.notification_topics: no entry, one entry, two entries
TopicTables ==
    {NoTopics}
        \cup {TopicEntry(topic, method) : topic \in ToastTopic, method \in DisplayMethod}
        \cup {Override(TopicEntry("System", "Hide"), TopicEntry("IpdChange", method)) :
                 method \in DisplayMethod}

\* the session with the configuration it was loaded from
WithConfig(sess, config) ==
    [toast_topics |-> sess.toast_topics, watch_hand |-> sess.watch_hand,
     realign_on_showhide |-> sess.realign_on_showhide, config |-> config]

InitTopic ==
    /\ now = 0
    /\ cur_frame = 0
    /\ tasks = << >>
    /\ due = << >>
    /\ overlays = OverlayContainer_new
    /\ next_id = FirstFreeId
    /\ \E topics \in TopicTables, hand \in LeftRight :
          \E config \in {GeneralConfig(topics, hand, FALSE)} :
              session = WithConfig(AppSession_load(config), config)
    /\ submitted = 0
    /\ enqueued = 0
    /\ tick = NoTick
    /\ app_anchor = IDENTITY
    /\ input_hmd = IDENTITY
    /\ held = Ids(overlays)
    /\ calls = << >>
    /\ InitAside

\* a producer submits the one toast
SubmitOne(topic, timeout, instant) ==
    /\ submitted = 0
    /\ Submit(topic, timeout, instant)

NextTopic ==
    \/ \E topic \in ToastTopic, timeout \in Timeouts, instant \in Instants :
          SubmitOne(topic, timeout, instant)
    \/ \E t \in Clock : TickBegin(t)
    \/ ExecDrop
    \/ \E gfx_ok \in BOOLEAN : ExecCreate(gfx_ok)

TopicSpec == InitTopic /\ [][NextTopic]_vars

-----------------------------------------------------------------------------
(* The line pools. allocate is two steps, the fetch_add on the backend's    *)
(* static counter and the insertion into the pool, so that calls on         *)
(* different pools interleave. Poses, transforms and swapchain images are   *)
(* left out; a length is kept in thousandths                                *)

\* variant of fetch_add: the counter is read and not advanced
fetch_add_stale(counter) == counter

\* AtomicUsize::fetch_add(1): the counter afterwards (the call returns the
\* counter before)
fetch_add(counter) == counter + 1

\* IdMap::insert
insert(lines, id, line) ==
    [i \in Ids(lines) \cup {id} |-> IF i = id THEN line ELSE lines[i]]

\* a running call of allocate on pool p has fetched its identifier
Fetched(m, p) ==
    [m EXCEPT !.id[p] = m.LINE_AUTO_INCREMENT,
              !.LINE_AUTO_INCREMENT = fetch_add(@)]

\* the call inserts the line and returns the identifier
Inserted(m, p, line) ==
    [m EXCEPT !.lines[p] = insert(@, m.id[p], line),
              !.returned = Append(@, m.id[p]),
              !.id[p] = NoId]

\* openxr: create_swapchain failed, the call returns the error
Failed(m, p) == [m EXCEPT !.id[p] = NoId]

\* openvr: the line allocate builds
openvr_line(id) == [id |-> id, want_visible |-> FALSE, dirty |-> TRUE, color |-> 0]

\* openxr: the LineContainer allocate builds, and a Line
NoLine == [draw |-> 0]
Line(color, len1000, draw) == [color |-> color, length |-> len1000, draw |-> draw]
LineContainer == [maybe_line |-> NoLine]

Colors == {0, 4}
LineMinLen1000 == 10
Lengths == {0, LineMinLen1000 - 1, LineMinLen1000, 500}

\* openvr draw_from, draw_transform: a line that exists is shown
openvr_draw_from(lines, id, color) ==
    IF id \in Ids(lines)
    THEN [lines EXCEPT ![id].want_visible = TRUE, ![id].color = color]
    ELSE lines

\* variant of update: the dirty flag is cleared whether the line is
\* visible or not
update_clear_all(lines, fails_at) ==
    LET done == IF fails_at = NoId THEN Ids(lines)
                ELSE {i \in Ids(lines) : i < fails_at}
    IN  [ok |-> fails_at = NoId,
         lines |-> [i \in Ids(lines) |->
                      IF i \in done THEN [lines[i] EXCEPT !.dirty = FALSE]
                      ELSE lines[i]],
         uploaded |-> {i \in done : lines[i].want_visible /\ lines[i].dirty}]

\* openvr update: the lines in the order of their ids; after_input fails at
\* line fails_at (NoId: nowhere), which ends the call with the error
update(lines, fails_at) ==
    LET done == IF fails_at = NoId THEN Ids(lines)
                ELSE {i \in Ids(lines) : i < fails_at}
        upload == {i \in done : lines[i].want_visible /\ lines[i].dirty}
    IN  [ok |-> fails_at = NoId,
         lines |-> [i \in Ids(lines) |->
                      IF i \in upload THEN [lines[i] EXCEPT !.dirty = FALSE]
                      ELSE lines[i]],
         uploaded |-> upload]

mark_dirty(lines) == [i \in Ids(lines) |-> [lines[i] EXCEPT !.dirty = TRUE]]

\* variant of openxr_draw_from: the length is not looked at
openxr_draw_from_any(lines, id, len1000, color, draw) ==
    IF id \in Ids(lines)
    THEN [lines EXCEPT ![id].maybe_line = Line(color, len1000, draw)]
    ELSE lines

\* openxr draw_from
openxr_draw_from(lines, id, len1000, color, draw) ==
    IF len1000 < LineMinLen1000 THEN lines
    ELSE IF id \notin Ids(lines) THEN lines
    ELSE [lines EXCEPT ![id].maybe_line = Line(color, len1000, draw)]

\* the ids of a set in ascending order
RECURSIVE Ascending(_)
Ascending(S) == IF S = {} THEN << >> ELSE <<Min(S)>> \o Ascending(S \ {Min(S)})

\* variant of present: the pending draws are read and not taken
present_keep(lines, fails_at) ==
    LET drawn == {i \in Ids(lines) : lines[i].maybe_line # NoLine}
        order == Ascending(drawn)
    IN  [ok |-> fails_at = NoId,
         lines |-> lines,
         quads |-> IF fails_at = NoId
                   THEN [k \in DOMAIN order |-> lines[order[k]].maybe_line]
                   ELSE << >>]

\* openxr present: the lines in the order of their ids; ensure_image_released
\* fails at line fails_at (NoId: nowhere), which ends the call with the error
present(lines, fails_at) ==
    LET done == IF fails_at = NoId THEN Ids(lines)
                ELSE {i \in Ids(lines) : i < fails_at}
        order == Ascending({i \in done : lines[i].maybe_line # NoLine})
    IN  [ok |-> fails_at = NoId,
         lines |-> [i \in Ids(lines) |->
                      IF i \in done THEN [lines[i] EXCEPT !.maybe_line = NoLine]
                      ELSE lines[i]],
         quads |-> IF fails_at = NoId
                   THEN [k \in DOMAIN order |-> lines[order[k]].maybe_line]
                   ELSE << >>]

\* what the line pools never touch
Others == <<now, cur_frame, tasks, due, overlays, next_id, session, submitted,
            enqueued, tick, app_anchor, input_hmd, held, app_screens, shared>>

\* Result<usize> of allocate
Ok(id) == [ok |-> TRUE, id |-> id]
Err == [ok |-> FALSE, id |-> NoId]

\* openvr allocate, first step: the fetch_add
VrFetch(p) ==
    /\ openvr.id[p] = NoId
    /\ openvr.LINE_AUTO_INCREMENT <= MaxLines
    /\ openvr' = Fetched(openvr, p)
    /\ UNCHANGED <<openxr, calls>>
    /\ UNCHANGED Others

\* openvr allocate, second step: the line is inserted, the id returned
VrInsert(p) ==
    /\ openvr.id[p] # NoId
    /\ openvr' = Inserted(openvr, p, openvr_line(openvr.id[p]))
    /\ calls' = << Call("openvr allocate", NoSel, p, Ok(openvr.id[p]), openvr.lines[p]) >>
    /\ UNCHANGED openxr
    /\ UNCHANGED Others

XrFetch(p) ==
    /\ openxr.id[p] = NoId
    /\ openxr.LINE_AUTO_INCREMENT <= MaxLines
    /\ openxr' = Fetched(openxr, p)
    /\ UNCHANGED <<openvr, calls>>
    /\ UNCHANGED Others

\* openxr allocate, second step when create_swapchain succeeds
XrInsert(p) ==
    /\ openxr.id[p] # NoId
    /\ openxr' = Inserted(openxr, p, LineContainer)
    /\ calls' = << Call("openxr allocate", NoSel, p, Ok(openxr.id[p]), openxr.lines[p]) >>
    /\ UNCHANGED openvr
    /\ UNCHANGED Others

\* openxr allocate, second step when create_swapchain fails
XrFail(p) ==
    /\ openxr.id[p] # NoId
    /\ openxr' = Failed(openxr, p)
    /\ calls' = << Call("openxr allocate", NoSel, p, Err, openxr.lines[p]) >>
    /\ UNCHANGED openvr
    /\ UNCHANGED Others

NextAlloc ==
    \E p \in Pools : VrFetch(p) \/ VrInsert(p) \/ XrFetch(p) \/ XrInsert(p) \/ XrFail(p)

AllocSpec == InitRegistry /\ [][NextAlloc]_vars

\* the identifiers callers pass: those handed out and one more
LineIds == 1..(MaxLines + 1)

\* the arguments of draw_from
DrawArgs(id, len1000, color) == [id |-> id, length |-> len1000, color |-> color]

XrDrawFrom(p, id, len1000, color) ==
    /\ openxr.draws < MaxDraws
    /\ openxr' = [openxr EXCEPT
                     !.lines[p] = openxr_draw_from(@, id, len1000, color,
                                                   openxr.draws + 1),
                     !.draws = @ + 1]
    /\ calls' = << Call("openxr draw_from", NoSel, DrawArgs(id, len1000, color),
                        NoOverlay, openxr.lines[p]) >>
    /\ UNCHANGED openvr
    /\ UNCHANGED Others

XrPresent(p, fails_at) ==
    /\ fails_at \in Ids(openxr.lines[p]) \cup {NoId}
    /\ \E r \in {present(openxr.lines[p], fails_at)} :
          /\ openxr' = [openxr EXCEPT !.lines[p] = r.lines,
                                      !.presented = @ \o r.quads]
          /\ calls' = << Call("openxr present", NoSel, fails_at,
                              [ok |-> r.ok, quads |-> r.quads], openxr.lines[p]) >>
    /\ UNCHANGED openvr
    /\ UNCHANGED Others

\* the pool of the specifications that follow one pool
ThePool == "pool"

NextXrLine ==
    \/ XrFetch(ThePool)
    \/ XrInsert(ThePool)
    \/ XrFail(ThePool)
    \/ \E id \in LineIds, len1000 \in Lengths, color \in Colors :
          XrDrawFrom(ThePool, id, len1000, color)
    \/ \E fails_at \in LineIds \cup {NoId} : XrPresent(ThePool, fails_at)

XrLineSpec == InitRegistry /\ [][NextXrLine]_vars

VrDrawFrom(p, id, color) ==
    /\ openvr' = [openvr EXCEPT !.lines[p] = openvr_draw_from(@, id, color)]
    /\ calls' = << Call("openvr draw_from", NoSel, DrawArgs(id, 500, color),
                        NoOverlay, openvr.lines[p]) >>
    /\ UNCHANGED openxr
    /\ UNCHANGED Others

VrUpdate(p, fails_at) ==
    /\ fails_at \in Ids(openvr.lines[p]) \cup {NoId}
    /\ \E r \in {update(openvr.lines[p], fails_at)} :
          /\ openvr' = [openvr EXCEPT !.lines[p] = r.lines]
          /\ calls' = << Call("openvr update", NoSel, fails_at,
                              [ok |-> r.ok, uploaded |-> r.uploaded],
                              openvr.lines[p]) >>
    /\ UNCHANGED openxr
    /\ UNCHANGED Others

VrMarkDirty(p) ==
    /\ openvr' = [openvr EXCEPT !.lines[p] = mark_dirty(@)]
    /\ calls' = << Call("openvr mark_dirty", NoSel, NoOverlay, NoOverlay,
                        openvr.lines[p]) >>
    /\ UNCHANGED openxr
    /\ UNCHANGED Others

NextVrLine ==
    \/ VrFetch(ThePool)
    \/ VrInsert(ThePool)
    \/ \E id \in LineIds, color \in Colors : VrDrawFrom(ThePool, id, color)
    \/ \E fails_at \in LineIds \cup {NoId} : VrUpdate(ThePool, fails_at)
    \/ VrMarkDirty(ThePool)

VrLineSpec == InitRegistry /\ [][NextVrLine]_vars

-----------------------------------------------------------------------------
(* wgui's SharedContext and its Contexts. A pixel scale is an f32 close to  *)
(* 1.0, kept as a whole number of half EPSILONs from 1.0 (the spacing of    *)
(* the f32 below 1.0; above 1.0 the spacing is one EPSILON), so that the    *)
(* differences are exact. The SlotMap hands out the keys 1, 2, ... and      *)
(* iterates in key order; nothing is removed from it in this code           *)

\* f32::EPSILON in half EPSILONs
EPSILON == 2

\* 1 - EPSILON / 2, 1, 1 + EPSILON, 1 + 3 EPSILON
PixelScales == {0 - 1, 0, 2, 6}

SharedAtlas(pixel_scale) == [pixel_scale |-> pixel_scale]

\* anyhow::Result<SharedContextKey>
NoKey == 0

\* variant of atlas_for_pixel_scale: every call initializes an atlas
atlas_for_pixel_scale_new(atlas_map, pixel_scale, atlas_ok) ==
    IF atlas_ok
    THEN [ok |-> TRUE, key |-> Len(atlas_map) + 1,
          atlas_map |-> Append(atlas_map, SharedAtlas(pixel_scale))]
    ELSE [ok |-> FALSE, key |-> NoKey, atlas_map |-> atlas_map]

\* SharedContext::atlas_for_pixel_scale; atlas_ok: TextAtlas::new succeeds
atlas_for_pixel_scale(atlas_map, pixel_scale, atlas_ok) ==
    LET found == {key \in DOMAIN atlas_map :
                     Abs(atlas_map[key].pixel_scale - pixel_scale) < EPSILON}
    IN  IF found # {}
        THEN [ok |-> TRUE, key |-> Min(found), atlas_map |-> atlas_map]
        ELSE IF atlas_ok
        THEN [ok |-> TRUE, key |-> Len(atlas_map) + 1,
              atlas_map |-> Append(atlas_map, SharedAtlas(pixel_scale))]
        ELSE [ok |-> FALSE, key |-> NoKey, atlas_map |-> atlas_map]

Context(pixel_scale, key) == [pixel_scale |-> pixel_scale, shared_ctx_key |-> key]

\* Context::new: the Result, the SharedContext afterwards; viewport_ok:
\* Viewport::new succeeds
Context_new(sh, pixel_scale, viewport_ok, atlas_ok) ==
    IF ~viewport_ok
    THEN [ok |-> FALSE, shared |-> sh]
    ELSE LET got == atlas_for_pixel_scale(sh.atlas_map, pixel_scale, atlas_ok)
         IN  IF got.ok
             THEN [ok |-> TRUE,
                   shared |-> [atlas_map |-> got.atlas_map,
                               contexts |-> Append(sh.contexts,
                                                   Context(pixel_scale, got.key))]]
             ELSE [ok |-> FALSE, shared |-> [sh EXCEPT !.atlas_map = got.atlas_map]]

\* Context::update_viewport on context c: the scale is stored before the
\* atlas is looked up; viewport_ok: Viewport::update succeeds
update_viewport(sh, c, pixel_scale, viewport_ok, atlas_ok) ==
    IF Abs(sh.contexts[c].pixel_scale - pixel_scale) > EPSILON
    THEN LET got == atlas_for_pixel_scale(sh.atlas_map, pixel_scale, atlas_ok)
         IN  [ok |-> got.ok /\ viewport_ok,
              shared |-> [atlas_map |-> got.atlas_map,
                          contexts |-> [sh.contexts EXCEPT
                                           ![c].pixel_scale = pixel_scale,
                                           ![c].shared_ctx_key =
                                               IF got.ok THEN got.key ELSE @]]]
    ELSE [ok |-> viewport_ok, shared |-> sh]

\* what the SharedContext's callers never touch
Outside == <<now, cur_frame, tasks, due, overlays, next_id, session, submitted,
             enqueued, tick, app_anchor, input_hmd, held, calls, app_screens,
             openvr, openxr>>

ContextNew(pixel_scale, viewport_ok, atlas_ok) ==
    /\ Len(shared.contexts) < MaxContexts
    /\ \E r \in {Context_new(shared, pixel_scale, viewport_ok, atlas_ok)} :
          shared' = r.shared
    /\ UNCHANGED Outside

UpdateViewport(c, pixel_scale, viewport_ok, atlas_ok) ==
    /\ c \in DOMAIN shared.contexts
    /\ \E r \in {update_viewport(shared, c, pixel_scale, viewport_ok, atlas_ok)} :
          shared' = r.shared
    /\ UNCHANGED Outside

NextAtlas ==
    \E pixel_scale \in PixelScales, viewport_ok \in BOOLEAN, atlas_ok \in BOOLEAN :
        \/ ContextNew(pixel_scale, viewport_ok, atlas_ok)
        \/ \E c \in 1..MaxContexts :
              UpdateViewport(c, pixel_scale, viewport_ok, atlas_ok)

AtlasSpec == InitRegistry /\ [][NextAtlas]_vars

-----------------------------------------------------------------------------
(* Notions the properties share *)

Steps == tick.steps

\* the overlays right after step k of the tick
AfterStep(k) == IF k < Len(Steps) THEN Steps[k + 1].before ELSE overlays

\* the tasks the tick retrieved, in the order it executes them
Drained == [k \in 1..Len(Steps) |-> Steps[k].task] \o due

Toasts(ovs) == Named(ovs, TOAST_NAME)

\* the tick has executed every task it retrieved
TickDone == tick.running /\ due = << >>

-----------------------------------------------------------------------------
(* No race-kill *)

\* C1: when the timeout task scheduled for toast A executes, every overlay
\* that was not built from A's submission, a replacement B among them, is
\* still in the registry afterwards, unchanged.
NoRaceKill ==
    \A k \in DOMAIN Steps :
        Steps[k].task.origin = "timeout" =>
            \A id \in Ids(Steps[k].before) :
                Steps[k].before[id].toast.sub # Steps[k].task.toast.sub =>
                    /\ id \in Ids(AfterStep(k))
                    /\ AfterStep(k)[id] = Steps[k].before[id]

\* A was replaced by B in an earlier frame, and A's timeout task has run
NoRaceKillWitness ==
    \E k \in DOMAIN Steps :
        /\ Steps[k].task.origin = "timeout"
        /\ Steps[k].task.sel.id \notin Ids(Steps[k].before)
        /\ \E id \in Toasts(Steps[k].before) :
              /\ Steps[k].before[id].toast.sub > Steps[k].task.toast.sub
              /\ Steps[k].before[id].birthframe < cur_frame
              /\ id \in Ids(AfterStep(k))

-----------------------------------------------------------------------------
(* DropOverlay and the current frame *)

\* C4: an overlay that a DropOverlay task removes was created before the
\* frame in which the task executes.
DropSparesCurrentFrame ==
    \A k \in DOMAIN Steps :
        Steps[k].task.kind = "DropOverlay" =>
            \A id \in Ids(Steps[k].before) \ Ids(AfterStep(k)) :
                Steps[k].before[id].birthframe < cur_frame

\* a DropOverlay task ran whose selector matched an overlay of this frame
DropSparesCurrentFrameWitness ==
    \E k \in DOMAIN Steps :
        /\ Steps[k].task.kind = "DropOverlay"
        /\ LET id == mut_by_selector(Steps[k].before, Steps[k].task.sel)
           IN  /\ id # NoId
               /\ Steps[k].before[id].birthframe = cur_frame
               /\ id \in Ids(AfterStep(k))

-----------------------------------------------------------------------------
(* The toast is a singleton *)

\* C5: in every reachable state the registry holds at most one overlay
\* named "toast".
AtMostOneToast == Cardinality(Toasts(overlays)) <= 1

\* two toasts were submitted, one is live and a CreateOverlay found it
AtMostOneToastWitness ==
    /\ submitted = MaxSubmits
    /\ Cardinality(Toasts(overlays)) = 1
    /\ \E k \in DOMAIN Steps : Steps[k].result = "exists"

-----------------------------------------------------------------------------
(* Idempotent creation *)

\* two CreateOverlay tasks of one tick with the same selector and instant,
\* the first of which found no overlay of that name
CreatePair(i, j) ==
    /\ i < j
    /\ Steps[i].task.kind = "CreateOverlay"
    /\ Steps[j].task.kind = "CreateOverlay"
    /\ Steps[i].task.sel = Steps[j].task.sel
    /\ Steps[i].task.not_before = Steps[j].task.not_before
    /\ Named(Steps[i].before, Steps[i].task.sel.name) = {}

-----------------------------------------------------------------------------
(* Several toasts for one frame *)

Creates == {k \in DOMAIN Steps : Steps[k].task.kind = "CreateOverlay"}

Built == {k \in Creates : Steps[k].result = "some"}

\* the tick is over and it executed the tasks of several submissions, all
\* submitted for the same instant
SameInstantBatch ==
    /\ TickDone
    /\ Cardinality(Creates) >= 2
    /\ \A i, j \in DOMAIN Steps :
          Steps[i].task.origin = "submit" /\ Steps[j].task.origin = "submit"
              => Steps[i].task.not_before = Steps[j].task.not_before

-----------------------------------------------------------------------------
(* Order of the drained tasks *)

\* C6: of two drained tasks with distinct not-before instants, the one
\* with the smaller instant is drained first.
TimeOrdering ==
    LET d == Drained
    IN  \A i, j \in DOMAIN d :
            i < j /\ d[i].not_before # d[j].not_before
                => d[i].not_before < d[j].not_before

\* a task enqueued later, for an earlier instant, is drained first
TimeOrderingWitness ==
    \E i, j \in DOMAIN Drained :
        /\ i < j
        /\ Drained[i].not_before < Drained[j].not_before
        /\ Drained[i].seq > Drained[j].seq

\* C7: two drained tasks with equal not-before instants are drained in the
\* order in which they were enqueued.
FifoOnTies ==
    LET d == Drained
    IN  \A i, j \in DOMAIN d :
            i < j /\ d[i].not_before = d[j].not_before => d[i].seq < d[j].seq

\* the tasks of two submissions tie and are drained in one tick
FifoOnTiesWitness ==
    /\ Len(Drained) >= 4
    /\ \E i, j \in DOMAIN Drained :
          /\ i < j
          /\ Drained[i].not_before = Drained[j].not_before
          /\ Drained[i].toast.sub # Drained[j].toast.sub

Elapsed(task) == task.not_before <= now

Range(q) == {q[i] : i \in DOMAIN q}

-----------------------------------------------------------------------------
(* retrieve_due *)

Waiting(task) == ~Elapsed(task)

WasQueued(task) == task \in Range(tick.queue)

\* C9: the tick retrieves exactly the tasks of the queue whose not-before
\* is at most now, in queue order; no retrieved task stays in the queue, and
\* the tasks with a later not-before stay in the queue, in the same order.
DrainExact ==
    LET d == Drained
        left == Range(tasks)
    IN  tick.running =>
            /\ d = SelectSeq(tick.queue, Elapsed)
            /\ \A task \in Range(d) : Elapsed(task) /\ task \notin left
            /\ SelectSeq(tasks, WasQueued) = SelectSeq(tick.queue, Waiting)

\* a tick has just split a queue into due tasks and waiting tasks
DrainExactWitness ==
    /\ tick.running
    /\ Steps = << >>
    /\ due # << >>
    /\ tasks # << >>
    /\ \E task \in Range(due) : task.not_before < now

-----------------------------------------------------------------------------
(* Life of a toast *)

Centered(toast) == current_method(toast, session) = "Center"

\* the pending timeout tasks for the overlay id
TimeoutsOf(id) ==
    {task \in Range(tasks) : task.origin = "timeout" /\ task.sel = SelId(id)}

\* the toast of a CreateOverlay step is live, visible and follows the head,
\* and its timeout task waits for the submission instant plus the timeout
ShownCentered(k) ==
    \E id \in Toasts(overlays) :
        /\ overlays[id].toast = Steps[k].task.toast
        /\ overlays[id].want_visible
        /\ overlays[id].positioning = PosFollowHead(1)
        /\ \E task \in TimeoutsOf(id) :
              task.not_before = Steps[k].task.not_before + Steps[k].task.toast.timeout

\* while the only toast submitted has its timeout task pending, it is live
LiveUntilTimeout ==
    submitted = 1 =>
        \A task \in Range(tasks) \cup Range(due) :
            task.origin = "timeout" =>
                /\ task.sel.id \in Toasts(overlays)
                /\ overlays[task.sel.id].want_visible

-----------------------------------------------------------------------------
(* The newest request wins *)

\* the finished tick executed the tasks of one submission only, that of the
\* CreateOverlay step j, and it began with the toast a of an earlier frame
Replaces(j, a) ==
    /\ TickDone
    /\ Steps[j].task.kind = "CreateOverlay"
    /\ \A k \in DOMAIN Steps :
          Steps[k].task.origin = "submit"
              => Steps[k].task.toast.sub = Steps[j].task.toast.sub
    /\ a \in Toasts(Steps[1].before)
    /\ Steps[1].before[a].birthframe < cur_frame

-----------------------------------------------------------------------------
(* A factory that returns nothing *)

\* the tasks that are pending or retrieved and not executed yet
Pending == Range(tasks) \cup Range(due)

\* C12: when the factory of a CreateOverlay task returns None, the task is
\* consumed, the registry is as it was before the task, and no timeout
\* DropOverlay task for that toast is enqueued.
NoneBuildsNothing ==
    \A k \in DOMAIN Steps :
        Steps[k].result = "none" =>
            /\ Steps[k].task \notin Pending
            /\ AfterStep(k) = Steps[k].before
            /\ \A task \in Pending :
                  task.origin = "timeout" => task.toast.sub # Steps[k].task.toast.sub

\* the factory of a toast whose topic is hidden was called
NoneBuildsNothingWitness ==
    \E k \in DOMAIN Steps :
        /\ Steps[k].result = "none"
        /\ current_method(Steps[k].task.toast, session) = "Hide"

-----------------------------------------------------------------------------
(* A DropOverlay that finds nothing *)

\* C13: a DropOverlay task whose selector resolves to no overlay leaves the
\* registry as it was: the same overlays, each in the same state.
StaleDropNoOp ==
    \A k \in DOMAIN Steps :
        /\ Steps[k].task.kind = "DropOverlay"
        /\ mut_by_selector(Steps[k].before, Steps[k].task.sel) = NoId
        => AfterStep(k) = Steps[k].before

\* a timeout drop by id ran after its toast was removed, a newer toast live
StaleDropNoOpWitness ==
    \E k \in DOMAIN Steps :
        /\ Steps[k].task.origin = "timeout"
        /\ Steps[k].task.sel.id \notin Ids(Steps[k].before)
        /\ Toasts(Steps[k].before) # {}
        /\ k < Len(Steps)

-----------------------------------------------------------------------------
(* remove_by_selector *)

\* the last call, when it is a call of the method op
LastIs(op) == calls # << >> /\ calls[Len(calls)].op = op

Last == calls[Len(calls)]

\* the ids a selector matches in a registry
Matches(ovs, sel) ==
    IF sel.kind = "Id" THEN Ids(ovs) \cap {sel.id} ELSE Named(ovs, sel.name)

\* all overlays of registry a but the one with the id are in registry b,
\* as they were, and b holds nothing else
AllBut(a, id, b) ==
    /\ Ids(b) = Ids(a) \ {id}
    /\ \A i \in Ids(b) : b[i] = a[i]

\* C17: remove_by_selector with an Id selector removes the overlay of that
\* id, with a Name selector the first overlay in iteration order (lowest
\* id) of that name; it returns the removed overlay and every other overlay
\* stays; when nothing matches it returns None and the registry is as before.
RemoveExact ==
    LastIs("remove_by_selector") =>
        LET c == Last
            m == Matches(c.before, c.sel)
        IN  IF m = {}
            THEN c.ret = NoOverlay /\ overlays = c.before
            ELSE /\ c.ret = c.before[Min(m)]
                 /\ c.sel.kind = "Id" => c.ret.id = c.sel.id
                 /\ AllBut(c.before, Min(m), overlays)

\* a name that two overlays share was removed: the second one is still there
RemoveExactWitness ==
    /\ LastIs("remove_by_selector")
    /\ Last.sel.kind = "Name"
    /\ Cardinality(Named(Last.before, Last.sel.name)) >= 2
    /\ Cardinality(Named(overlays, Last.sel.name)) >= 1
    /\ Cardinality(Ids(overlays)) = MaxOverlays - 1

-----------------------------------------------------------------------------
(* Lookups that miss *)

Lookups == {"get_by_id", "mut_by_id", "get_by_name", "mut_by_name", "mut_by_selector"}

LastIsLookup == calls # << >> /\ calls[Len(calls)].op \in Lookups

\* C18: a lookup whose selector matches no overlay returns None and leaves
\* the registry as it was, in every registry state, the empty one included.
MissIsAbsent ==
    LastIsLookup /\ Matches(Last.before, Last.sel) = {} =>
        /\ Last.ret = NoOverlay
        /\ overlays = Last.before

\* a lookup by name in the empty registry
MissIsAbsentWitness ==
    /\ LastIsLookup
    /\ Last.sel.kind = "Name"
    /\ Ids(Last.before) = {}
    /\ Last.ret = NoOverlay

-----------------------------------------------------------------------------
(* Overlay identities *)

\* the timeout tasks that are pending or retrieved and not executed yet
PendingTimeouts == {task \in Pending : task.origin = "timeout"}

\* C19: no id is handed out twice: every overlay and every pending timeout
\* task holds an id the generator has left behind, two pending timeout
\* tasks for different toasts hold different ids, and the id of a pending
\* timeout task resolves to the toast it was created for or to nothing.
UniqueIds ==
    /\ \A id \in Ids(overlays) : id < next_id /\ overlays[id].id = id
    /\ \A task \in PendingTimeouts :
          /\ task.sel.id < next_id
          /\ \A other \in PendingTimeouts :
                other.sel.id = task.sel.id => other.toast = task.toast
          /\ task.sel.id \in Ids(overlays) =>
                overlays[task.sel.id].toast = task.toast

\* the timeout task of a replaced toast is pending while a newer toast is
\* in the registry
UniqueIdsWitness ==
    \E task \in PendingTimeouts :
        /\ task.sel.id \notin Ids(overlays)
        /\ \E id \in Toasts(overlays) : overlays[id].toast.sub > task.toast.sub

-----------------------------------------------------------------------------
(* The registry is keyed by identity *)

\* C20: every overlay is stored under its own id, so no two overlays of the
\* registry have the same id; after add(e) a lookup by e's id returns e, an
\* overlay that had e's id is no longer stored, and the others are as before.
KeyedById ==
    /\ \A id \in Ids(overlays) : overlays[id].id = id
    /\ LastIs("add") =>
          LET e == Last.arg
          IN  /\ Ref(overlays, get_by_id(overlays, e.id)) = e
              /\ Ref(overlays, mut_by_selector(overlays, SelId(e.id))) = e
              /\ Ids(overlays) = Ids(Last.before) \cup {e.id}
              /\ \A id \in Ids(overlays) \ {e.id} : overlays[id] = Last.before[id]

\* an overlay was added whose id another overlay had
KeyedByIdWitness ==
    /\ LastIs("add")
    /\ Last.arg.id \in Ids(Last.before)
    /\ Last.before[Last.arg.id].name # Last.arg.name
    /\ Cardinality(Ids(overlays)) = Cardinality(Ids(Last.before))

-----------------------------------------------------------------------------
(* show_hide *)

\* the members of the show/hide group
Group(ovs) == {i \in Ids(ovs) : ovs[i].show_hide}

Visible(ovs) == {i \in Ids(ovs) : ovs[i].want_visible}

Watches(ovs) == Named(ovs, WATCH_NAME)

\* C15: show_hide sets want_visible of every overlay with the show_hide flag
\* to the negation of any_shown, true exactly when before the call some
\* overlay has show_hide and want_visible; so afterwards all group members
\* have the same want_visible.
ShowHideToggle ==
    LastIs("show_hide") =>
        LET b == Last.before
            shown == Group(b) \cap Visible(b) # {}
        IN  /\ Ids(overlays) = Ids(b)
            /\ \A i \in Group(b) : overlays[i].want_visible = ~shown
            /\ \A i, j \in Group(overlays) :
                  overlays[i].want_visible = overlays[j].want_visible

\* a group with a visible and a hidden member was toggled: all are hidden
ShowHideToggleWitness ==
    /\ LastIs("show_hide")
    /\ Group(Last.before) \cap Visible(Last.before) # {}
    /\ Group(Last.before) \ Visible(Last.before) # {}
    /\ Group(overlays) \cap Visible(overlays) = {}

-----------------------------------------------------------------------------
(* show_hide, twice *)

\* show_hide was called twice in a row
Twice == Len(calls) = 2 /\ calls[1].op = "show_hide" /\ calls[2].op = "show_hide"

\* the registry before the first of the two calls
First == calls[1].before

ShownFirst == Group(First) \cap Visible(First) # {}

Uniform(ovs) == \A i, j \in Group(ovs) : ovs[i].want_visible = ovs[j].want_visible

-----------------------------------------------------------------------------
(* The watch after a global hide and show *)

HardReset(o) == "hard" \in o.reset

-----------------------------------------------------------------------------
(* One resolution rule for names *)

ByName == {"get_by_name", "mut_by_name", "mut_by_selector", "remove_by_selector"}

\* C26: get_by_name(n), mut_by_name(n), mut_by_selector(Name(n)) and
\* remove_by_selector(Name(n)) resolve to the same overlay in every registry
\* state, one where overlays share a name included: the first of that name
\* in iteration order, which is the one remove_by_selector takes out; and a
\* call by name returns that overlay.
SameResolution ==
    /\ \A n \in CallNames :
          LET found == get_by_name(overlays, n)
              sel == SelName(n)
          IN  /\ mut_by_name(overlays, n) = found
              /\ mut_by_selector(overlays, sel) = found
              /\ removed_by_selector(overlays, sel) = Ref(overlays, found)
              /\ Ids(remove_by_selector(overlays, sel)) = Ids(overlays) \ {found}
              /\ found # NoId => found = Min(Named(overlays, n))
    /\ calls # << >> /\ Last.op \in ByName /\ Last.sel.kind = "Name" =>
          Last.ret = Ref(Last.before, get_by_name(Last.before, Last.sel.name))

\* get_by_name was called with a name two overlays share
SameResolutionWitness ==
    /\ LastIs("get_by_name")
    /\ Cardinality(Named(overlays, Last.sel.name)) >= 2
    /\ Last.ret.id = Min(Named(overlays, Last.sel.name))
    /\ removed_by_selector(overlays, Last.sel) = Last.ret

-----------------------------------------------------------------------------
(* show_hide: realignment *)

\* the overlay was reset by the last call: softly for realignment, hard
SoftReset(i) == "soft" \in overlays[i].reset \ Last.before[i].reset

\* the last call of show_hide found some group member visible: it hides
Hiding == Group(Last.before) \cap Visible(Last.before) # {}

-----------------------------------------------------------------------------
(* show_hide: what it leaves alone *)

-----------------------------------------------------------------------------
(* show_hide: the anchor *)

\* the anchor of a head: its upright-snapped transform, one unit forward
AnchorAt == [hmd \in HmdPoses |-> ANCHOR_LOCAL(snap_upright(hmd))]

\* C29: show_hide recomputes the application anchor, the upright-snapped
\* head transform of the call moved one unit forward, on a call that shows
\* the group (no member was visible before the call); on a call that hides
\* the group the anchor stays as it was.
AnchorOnShow ==
    [][IF any_shown(overlays)
       THEN app_anchor' = app_anchor
       ELSE \E hmd \in HmdPoses : app_anchor' = AnchorAt[hmd] /\ ShowHide(hmd)]_vars

\* a show with the head tilted beyond the threshold and then a hide: the
\* anchor is the one the show computed
AnchorOnShowWitness ==
    /\ Twice
    /\ Hiding
    /\ calls[1].anchor = IDENTITY
    /\ Last.anchor = ANCHOR_LOCAL(Transform(UprightThreshold100 + 1, 0))
    /\ app_anchor = Last.anchor

-----------------------------------------------------------------------------
(* Backend resources *)

\* the ids the generator handed out to toasts that are registered no more
Gone == (FirstFreeId..(next_id - 1)) \ Ids(overlays)

-----------------------------------------------------------------------------
(* The upright snap *)

\* the dot product of the transform's x axis with the up direction, unsigned
UpDot(transform) == RatAbs(dot(transform.x_axis, Y))

Square(r) == Rat(r.n * r.n, r.d * r.d)

\* the axes are at right angles and each has the length scale
Orthonormal(transform, scale) ==
    /\ dot(transform.x_axis, transform.y_axis) = Rat(0, 1)
    /\ dot(transform.y_axis, transform.z_axis) = Rat(0, 1)
    /\ dot(transform.z_axis, transform.x_axis) = Rat(0, 1)
    /\ dot(transform.x_axis, transform.x_axis) = Square(scale)
    /\ dot(transform.y_axis, transform.y_axis) = Square(scale)
    /\ dot(transform.z_axis, transform.z_axis) = Square(scale)

\* the transform's z axis is not along the up direction
Sloped(transform) == transform.z_axis.x # 0 \/ transform.z_axis.z # 0

\* C25: snap_upright of a head transform whose x axis has the dot product
\* 0.19 with the up direction is a basis of axes at right angles, each of
\* the length of the given x axis, with the x axis level and the given
\* translation; a transform with the dot product 0.21 is returned as it is.
\* The threshold is 0.2: every transform at or beyond it is returned as it
\* is, every transform below it whose z axis is not along the up direction
\* is rebuilt.
SnapBoundary ==
    LastIs("snap_upright") =>
        LET given == Last.arg
            snapped == Last.ret
            scale == length(given.x_axis)
            rebuilt == /\ Orthonormal(snapped, scale)
                       /\ dot(snapped.x_axis, Y) = Rat(0, 1)
                       /\ snapped.translation = given.translation
                       /\ snapped.z_axis = given.z_axis
        IN  /\ dot(given.x_axis, given.x_axis) = Square(scale)
            /\ UpDot(given) = Rat(UprightThreshold100 - 1, 100) => rebuilt
            /\ UpDot(given) = Rat(UprightThreshold100 + 1, 100) => snapped = given
            /\ ~Less(UpDot(given), Rat(UprightThreshold100, 100)) => snapped = given
            /\ Less(UpDot(given), Rat(UprightThreshold100, 100)) /\ Sloped(given) =>
                  rebuilt

\* a head that looks down a slope, of a scale other than one, away from the
\* origin, with the dot product 0.19, was snapped: its x and y axes changed
SnapBoundaryWitness ==
    /\ LastIs("snap_upright")
    /\ UpDot(Last.arg) = Rat(UprightThreshold100 - 1, 100)
    /\ Last.arg.z_axis.y # 0
    /\ length(Last.arg.x_axis) # Rat(1, 1)
    /\ Last.arg.translation # Vec3A(0, 0, 0, 1)
    /\ Last.ret.x_axis # Last.arg.x_axis
    /\ Last.ret.y_axis # Last.arg.y_axis

-----------------------------------------------------------------------------
(* A factory that fails *)

\* the main loop can execute the task at the front of the retrieved ones
CanExecute == ENABLED (ExecDrop \/ ExecCreateExists \/ \E gfx_ok \in BOOLEAN : ExecCreate(gfx_ok))

\* C22: a factory whose text measuring or canvas creation fails creates no
\* overlay and stops nothing: the step leaves the registry, the held
\* resources, the id generator and the queue as they were and goes on to
\* the next retrieved task; and whatever has happened, a retrieved task can
\* be executed, and with none left the next tick can start.
FailureNotFatal ==
    /\ [][ExecCreate(FALSE) =>
             /\ overlays' = overlays
             /\ held' = held
             /\ next_id' = next_id
             /\ tasks' = tasks
             /\ due' = Tail(due)
             /\ tick'.steps = Append(tick.steps, Step(Head(due), overlays, "none"))]_vars
    /\ [](due # << >> => CanExecute)
    /\ [](due = << >> /\ cur_frame < MaxFrame => ENABLED TickBegin(now))

\* the factory of a toast that is not hidden failed, and a later task of the
\* same tick built the next toast
FailureNotFatalWitness ==
    /\ TickDone
    /\ \E k \in 1..Len(Steps) :
          /\ Steps[k].result = "none"
          /\ current_method(Steps[k].task.toast, session) # "Hide"
          /\ \E j \in (k + 1)..Len(Steps) :
                /\ Steps[j].result = "some"
                /\ Steps[j].task.toast.sub # Steps[k].task.toast.sub

-----------------------------------------------------------------------------
(* A producer and the registry *)

\* the tasks of the queue q enqueued after the first n tasks, and the others
EnqueuedAfter(q, n) == SelectSeq(q, LAMBDA task : task.seq > n)

EnqueuedUpTo(q, n) == SelectSeq(q, LAMBDA task : task.seq <= n)

\* C23: Toast::submit_at leaves the registry (the overlays and their states)
\* and the held resources as they were and adds exactly two tasks to the
\* queue, whose other tasks stay in their order: DropOverlay(Name(toast))
\* and after it CreateOverlay(Name(toast), factory), both with the
\* submission instant as not-before.
ProducerEnqueuesOnly ==
    [][\A topic \in SubmitTopics, timeout \in Timeouts, instant \in Instants :
          Submit(topic, timeout, instant) =>
              LET added == EnqueuedAfter(tasks', enqueued)
              IN  /\ overlays' = overlays
                  /\ held' = held
                  /\ due' = due
                  /\ EnqueuedUpTo(tasks', enqueued) = tasks
                  /\ Len(added) = 2
                  /\ added[1].kind = "DropOverlay"
                  /\ added[2].kind = "CreateOverlay"
                  /\ \A i \in 1..2 :
                        /\ added[i].sel = SelName(TOAST_NAME)
                        /\ added[i].not_before = instant
                        /\ added[i].toast = Toast(topic, timeout, submitted + 1)]_vars

\* a toast was submitted while the toast before it is in the registry and
\* its timeout task in the queue: the queue holds three tasks
ProducerEnqueuesOnlyWitness ==
    /\ tick = NoTick
    /\ submitted = 2
    /\ Toasts(overlays) # {}
    /\ Len(tasks) = 3
    /\ Len(EnqueuedAfter(tasks, enqueued - 2)) = 2
    /\ \E i \in 1..Len(tasks) : tasks[i].origin = "timeout"

-----------------------------------------------------------------------------
(* The instant of the timeout *)

\* the tasks of the queue q enqueued after the first n tasks
NewTasks(q, n) == {q[i] : i \in {j \in 1..Len(q) : q[j].seq > n}}

\* C24: the timeout task the factory enqueues for the toast it built is a
\* DropOverlay by the id of that toast whose not-before is the submission
\* instant (the not-before of the CreateOverlay task) plus the toast's
\* timeout, whatever the time of the tick that executes the CreateOverlay
\* task; a factory that builds nothing enqueues nothing.
TimeoutFromSubmission ==
    [][\A gfx_ok \in BOOLEAN :
          ExecCreate(gfx_ok) =>
              LET create == Head(due)
                  built == Ids(overlays') \ Ids(overlays)
                  added == NewTasks(tasks', enqueued)
              IN  IF built = {}
                  THEN added = {}
                  ELSE /\ Cardinality(added) = 1
                       /\ \A task \in added :
                             /\ task.kind = "DropOverlay"
                             /\ task.sel.kind = "Id"
                             /\ built = {task.sel.id}
                             /\ task.toast = create.toast
                             /\ task.not_before =
                                   create.not_before + create.toast.timeout]_vars

\* a toast with a timeout was built in the running frame, by a tick that
\* came after its timeout instant: its timeout task is queued for a time
\* that has passed and that is not the time of the tick plus the timeout
TimeoutFromSubmissionWitness ==
    \E id \in Toasts(overlays) :
        /\ overlays[id].birthframe = cur_frame
        /\ overlays[id].toast.timeout > 0
        /\ \E i \in 1..Len(tasks) :
              /\ tasks[i].sel = SelId(id)
              /\ tasks[i].not_before < now

-----------------------------------------------------------------------------
(* Every toast goes *)

\* the ids the toasts of the model can get
ToastIds == FirstFreeId..(FirstFreeId + MaxSubmits)

\* C30: every toast that is created is removed from the registry later, for
\* every timeout, 0 included, and whatever toasts are submitted after it,
\* as long as the main loop keeps running frames and the clock goes on.
ToastsGo ==
    \A id \in ToastIds :
        (id \in Toasts(overlays)) ~> (id \notin Ids(overlays))

\* the last toast submitted, with timeout 0, was built in the running frame
\* by a tick after its instant: it is in the registry, and its timeout task
\* is queued for a time that has passed
ToastsGoWitness ==
    /\ due = << >>
    /\ cur_frame = 1
    /\ \E id \in Toasts(overlays) :
          /\ overlays[id].toast.timeout = 0
          /\ overlays[id].birthframe = 1
          /\ overlays[id].toast.sub = MaxSubmits
          /\ \E i \in 1..Len(tasks) :
                /\ tasks[i].sel = SelId(id)
                /\ tasks[i].not_before < now

-----------------------------------------------------------------------------
(* C31: when new ran without headless and create_screens succeeded, every  *)
(* screen create_screens returned is in the registry and its metadata is   *)
(* in app.screens, whether show_screens was empty or not.                  *)
(* Checked under NewSpec                                                    *)

HasScreen(ovs, name) == \E i \in Ids(ovs) : ovs[i].name = name

HasMeta(metas, ovs, name) ==
    \E j \in DOMAIN metas :
        /\ metas[j].name = name
        /\ metas[j].id \in Ids(ovs)
        /\ ovs[metas[j].id].name = name

ScreensInserted ==
    calls # << >> =>
        LET c == calls[1]
        IN  ~c.arg.headless /\ c.arg.created.ok /\ c.ret.ok =>
                /\ \A j \in DOMAIN c.arg.created.screens :
                      /\ HasScreen(overlays, c.arg.created.screens[j])
                      /\ HasMeta(app_screens, overlays, c.arg.created.screens[j])
                /\ Len(app_screens) = Len(c.arg.created.screens)

-----------------------------------------------------------------------------
(* C32: whenever new succeeds, the registry holds the anchor, the watch    *)
(* and the keyboard, the watch with want_visible true, the anchor and the  *)
(* keyboard with want_visible false; new succeeds whenever the three       *)
(* constructors do, also when create_screens failed.                       *)
(* Checked under NewSpec                                                    *)

Holds(ovs, name, visible) ==
    \E i \in Ids(ovs) : ovs[i].name = name /\ ovs[i].want_visible = visible

NewRegistry ==
    calls # << >> =>
        LET c == calls[1]
        IN  /\ c.ret.ok =>
                  /\ Holds(overlays, ANCHOR_NAME, FALSE)
                  /\ Holds(overlays, WATCH_NAME, TRUE)
                  /\ Holds(overlays, KEYBOARD_NAME, FALSE)
                  /\ Cardinality(Named(overlays, ANCHOR_NAME)) = 1
                  /\ Cardinality(Named(overlays, WATCH_NAME)) = 1
                  /\ Cardinality(Named(overlays, KEYBOARD_NAME)) = 1
            /\ c.arg.built = "all" => c.ret.ok

\* new succeeded although create_screens had failed
NewRegistryWitness ==
    /\ calls # << >>
    /\ ~calls[1].arg.headless
    /\ ~calls[1].arg.created.ok
    /\ calls[1].ret.ok
    /\ Cardinality(Ids(overlays)) = 3

-----------------------------------------------------------------------------
(* C33: the display method of a toast is the one the session's topic table *)
(* holds when the CreateOverlay task runs: the configuration's entry for   *)
(* the topic if it has one, else Center for System, DesktopNotification    *)
(* and XSNotification, else Hide; with Hide no overlay is created, with    *)
(* Center the toast follows the head, with Watch the hand.                 *)
(* Checked under TopicSpec                                                  *)

\* the method the claim gives a topic under the loaded configuration
MethodOf(topic, config) ==
    IF topic \in DOMAIN config.notification_topics
    THEN config.notification_topics[topic]
    ELSE IF topic \in {"System", "DesktopNotification", "XSNotification"}
         THEN "Center"
         ELSE "Hide"

MethodAtExecution ==
    [][\A gfx_ok \in BOOLEAN :
          ExecCreate(gfx_ok) =>
              LET method == MethodOf(Head(due).toast.topic, session.config)
                  built == Ids(overlays') \ Ids(overlays)
              IN  IF method = "Hide" \/ ~gfx_ok
                  THEN overlays' = overlays
                  ELSE /\ Cardinality(built) = 1
                       /\ \A id \in built :
                             /\ overlays'[id].toast = Head(due).toast
                             /\ overlays'[id].positioning.kind =
                                    IF method = "Center" THEN "FollowHead"
                                    ELSE "FollowHand"]_vars

\* a toast was created for a topic that only the configuration enables, with
\* the method of the configuration
MethodAtExecutionWitness ==
    \E id \in Toasts(overlays) :
        /\ overlays[id].toast.topic = "IpdChange"
        /\ session.config.notification_topics = 
               Override(TopicEntry("System", "Hide"), TopicEntry("IpdChange", "Watch"))
        /\ overlays[id].positioning.kind = "FollowHand"

-----------------------------------------------------------------------------
(* C34: line identifiers are unique. No call of allocate returns an        *)
(* identifier an earlier call of that backend returned, however the calls  *)
(* on different pools interleave; the call that returns an identifier      *)
(* inserts a line under a key the pool did not have, leaves the other      *)
(* lines as they were, and so adds exactly one line.                       *)
(* Checked under AllocSpec                                                  *)

NoRepeat(seq) == \A i, j \in DOMAIN seq : i # j => seq[i] # seq[j]

\* the step added one line to the pool, under the identifier it returned
GrewByOne(before, after, id) ==
    /\ id \notin Ids(before)
    /\ Ids(after) = Ids(before) \cup {id}
    /\ \A i \in Ids(before) : after[i] = before[i]
    /\ Cardinality(Ids(after)) = Cardinality(Ids(before)) + 1

LineIdsUnique ==
    /\ [](NoRepeat(openvr.returned) /\ NoRepeat(openxr.returned))
    /\ [][\A p \in Pools :
             /\ VrInsert(p) =>
                    GrewByOne(openvr.lines[p], openvr'.lines[p], calls'[1].ret.id)
             /\ XrInsert(p) =>
                    GrewByOne(openxr.lines[p], openxr'.lines[p], calls'[1].ret.id)]_vars

\* two calls overlapped: the one that fetched its identifier later has
\* returned, the other has not yet
LineIdsUniqueWitness ==
    \E p \in Pools :
        /\ openxr.id[p] # NoId
        /\ Len(openxr.returned) = 1
        /\ openxr.returned[1] > openxr.id[p]

-----------------------------------------------------------------------------
(* C35: in the OpenXR pool a drawn line is presented at most once. A       *)
(* present that succeeds returns one quad for each line with a pending     *)
(* draw, and for no other, and leaves no line with a pending draw; only    *)
(* draw_from makes a draw pending, so a present right after a present that *)
(* succeeded returns no quad; draw_from with a length below 0.01 or with   *)
(* an identifier the pool does not have changes nothing in the pool.       *)
(* Checked under XrLineSpec                                                 *)

PendingDraw(lines) == {i \in Ids(lines) : lines[i].maybe_line # NoLine}

\* the draws of a sequence of quads
DrawsOf(quads) == {quads[k].draw : k \in DOMAIN quads}

PresentedOnce ==
    /\ [](NoRepeat(openxr.presented))
    /\ [][LET before == openxr.lines[ThePool]
              after == openxr'.lines[ThePool]
          IN  /\ \A fails_at \in LineIds \cup {NoId} :
                    XrPresent(ThePool, fails_at) /\ calls'[1].ret.ok =>
                        /\ Len(calls'[1].ret.quads) = Cardinality(PendingDraw(before))
                        /\ DrawsOf(calls'[1].ret.quads) =
                               {before[i].maybe_line.draw : i \in PendingDraw(before)}
                        /\ PendingDraw(after) = {}
                        /\ (calls # << >> /\ calls[1].op = "openxr present"
                                /\ calls[1].ret.ok) => calls'[1].ret.quads = << >>
              /\ \A id \in LineIds, len1000 \in Lengths, color \in Colors :
                    XrDrawFrom(ThePool, id, len1000, color)
                        /\ (len1000 < LineMinLen1000 \/ id \notin Ids(before)) =>
                            after = before
              /\ (\E i \in PendingDraw(after) :
                      i \notin PendingDraw(before)
                          \/ after[i].maybe_line # before[i].maybe_line) =>
                    calls'[1].op = "openxr draw_from"]_vars

\* a present returned a quad and the present right after it returned none
PresentedOnceWitness ==
    /\ calls # << >>
    /\ calls[1].op = "openxr present"
    /\ calls[1].ret.ok
    /\ calls[1].ret.quads = << >>
    /\ PendingDraw(calls[1].before) = {}
    /\ Len(openxr.presented) = MaxDraws

-----------------------------------------------------------------------------
(* C36: in the OpenVR pool no line is visible and dirty after an update    *)
(* that succeeded. update uploads the texture of a line only when the line *)
(* is visible and dirty, and clears the dirty flag of the lines it         *)
(* uploaded and of no other; a line that is not visible keeps its dirty    *)
(* flag; a new line is dirty; mark_dirty makes every line dirty.           *)
(* Checked under VrLineSpec                                                 *)

VisibleDirty(lines) == {i \in Ids(lines) : lines[i].want_visible /\ lines[i].dirty}

CleanAfterUpdate ==
    /\ []((calls # << >> /\ calls[1].op = "openvr update" /\ calls[1].ret.ok) =>
              VisibleDirty(openvr.lines[ThePool]) = {})
    /\ [][LET before == openvr.lines[ThePool]
              after == openvr'.lines[ThePool]
          IN  /\ \A fails_at \in LineIds \cup {NoId} :
                    VrUpdate(ThePool, fails_at) =>
                        /\ calls'[1].ret.uploaded \subseteq VisibleDirty(before)
                        /\ calls'[1].ret.ok =>
                               calls'[1].ret.uploaded = VisibleDirty(before)
                        /\ \A i \in Ids(before) :
                              /\ after[i].dirty =
                                     (before[i].dirty /\ i \notin calls'[1].ret.uploaded)
                              /\ after[i].want_visible = before[i].want_visible
              /\ VrInsert(ThePool) => after[calls'[1].ret.id].dirty
              /\ VrMarkDirty(ThePool) =>
                    /\ Ids(after) = Ids(before)
                    /\ \A i \in Ids(after) : after[i].dirty]_vars

\* an update that succeeded uploaded a line and left another, not visible,
\* dirty
CleanAfterUpdateWitness ==
    /\ calls # << >>
    /\ calls[1].op = "openvr update"
    /\ calls[1].ret.ok
    /\ calls[1].ret.uploaded # {}
    /\ \E i \in Ids(openvr.lines[ThePool]) :
          ~openvr.lines[ThePool][i].want_visible /\ openvr.lines[ThePool][i].dirty

-----------------------------------------------------------------------------
(* C37: the shared atlas cache holds at most one atlas per pixel scale.    *)
(* After any calls of Context::new and update_viewport no two atlases have *)
(* the same pixel scale; a call never removes or changes an atlas and adds *)
(* at most one, and none when an atlas of the requested pixel scale is     *)
(* there: the context then holds the key of that atlas.                    *)
(* Checked under AtlasSpec                                                  *)

\* the keys of the atlases of a pixel scale
AtlasesOf(atlas_map, pixel_scale) ==
    {key \in DOMAIN atlas_map : atlas_map[key].pixel_scale = pixel_scale}

\* the call left the atlases there were and added at most one, for the
\* pixel scale wanted and only when there was none for it
Cached(before, after, wanted) ==
    /\ Len(after) \in {Len(before), Len(before) + 1}
    /\ SubSeq(after, 1, Len(before)) = before
    /\ Len(after) > Len(before) =>
          /\ AtlasesOf(before, wanted) = {}
          /\ after[Len(after)].pixel_scale = wanted

OneAtlasPerScale ==
    /\ [](\A scale \in PixelScales : Cardinality(AtlasesOf(shared.atlas_map, scale)) <= 1)
    /\ [][\A wanted \in PixelScales, viewport_ok \in BOOLEAN, atlas_ok \in BOOLEAN :
             LET before == shared.atlas_map
                 after == shared'.atlas_map
             IN  /\ ContextNew(wanted, viewport_ok, atlas_ok) =>
                       /\ Cached(before, after, wanted)
                       /\ (AtlasesOf(before, wanted) # {} /\ viewport_ok) =>
                             /\ Len(shared'.contexts) = Len(shared.contexts) + 1
                             /\ shared'.contexts[Len(shared'.contexts)].shared_ctx_key
                                    \in AtlasesOf(before, wanted)
                 /\ \A c \in DOMAIN shared.contexts :
                       UpdateViewport(c, wanted, viewport_ok, atlas_ok) =>
                           /\ Cached(before, after, wanted)
                           /\ (AtlasesOf(before, wanted) # {}
                                 /\ shared'.contexts[c].pixel_scale = wanted) =>
                                 shared'.contexts[c].shared_ctx_key
                                     \in AtlasesOf(before, wanted)]_vars

\* two contexts of one pixel scale share the one atlas of that scale, and
\* another atlas exists
OneAtlasPerScaleWitness ==
    /\ Len(shared.contexts) = 2
    /\ shared.contexts[1].pixel_scale = shared.contexts[2].pixel_scale
    /\ shared.contexts[1].shared_ctx_key = shared.contexts[2].shared_ctx_key
    /\ Len(shared.atlas_map) = 2
    /\ shared.atlas_map[shared.contexts[1].shared_ctx_key].pixel_scale =
           shared.contexts[1].pixel_scale

====
